---- MODULE Spec2Model ----
(***************************************************************************)
(* Quack: the target execution engine (models/target.py) over the layered  *)
(* cache backends (cache.py), the archiver and the object-store driver.    *)
(*                                                                         *)
(* The specifications share the cache-backend step relation and the       *)
(* fingerprint operators:                                                  *)
(*   Spec       one invocation of execute_target on a target graph; every  *)
(*              cache call runs to completion inside one engine step;      *)
(*   SpecCache  two invocations on one host that look up, load and save    *)
(*              the same cache entry, interleaved file write by file write;*)
(*   SpecSeq    the same invocations one after the other;                  *)
(*   SpecSum    two runs computing fingerprints over the same inputs;      *)
(*   SpecList   SpecSum over targets listing upstream targets in any order;*)
(*   SpecMemo   Spec with the Local backend;                               *)
(*   SpecRecord Spec in a merge-group run, with the checksum record;       *)
(*   SpecSweep  clear_expired of the cloud backends next to an invocation. *)
(* The others stand apart from the engine:                                 *)
(*   SpecLoad   Spec.from_file: validation, includes, post-processing;     *)
(*   SpecMatch  one call of get_matched_files of a source dependency;      *)
(*   SpecPar    execute_scripts_parallel with the command registry;        *)
(*   SpecClear  clear_expired of the Local backend on its directory;       *)
(*   SpecExtract  Archiver.archive and Archiver.extract on a directory.    *)
(***************************************************************************)
EXTENDS Integers, Sequences, FiniteSets, TLC

\* Number of targets of the spec (target NumTargets is the requested one).
NumTargets == 3
\* Number of invocations started in SpecCache.
MaxRuns == 2
MaxClock == 1

VARIABLES
    deps,      \* deps[t]: the dependency list of target t after Target.__init__
    backend,   \* the cache backend type handed to execute_target
    mode,      \* the TargetExecutionMode of the requested target
    commitIdx, \* config.save_for_load and CIEnvironment().commit_sha both set
    store,     \* store[tier][t]: the cache entry of t at its fingerprint
    store0,    \* the store when the invocation started
    now,       \* object-store clock: the modified_time of the last upload
    serial,    \* number of Local saves started (identifies written content)
    stack,     \* call stack of Target.execute frames, innermost last
    status,    \* how the invocation stands: running / done / exit1 / failed / error
    log,       \* engine events in program order
    op,        \* SpecCache: op[p], what invocation p is doing
    runs,      \* SpecCache: invocations started so far
    tree,      \* tree[f]: content of file f of the work tree, or Absent
    environ,   \* environ[r]: os.environ.items() of run r, in its own order
    cmdout,    \* what the commands of a command dependency print
    rec,       \* the checksum recorded for (app, commit, job, target), if any
    sum,       \* sum[r][t]: Target._checksum_value of t in run r
    keys,      \* the cache paths the backend was called with
    isCI,      \* CIEnvironment().is_ci: the environment has CI=true
    yaml,      \* SpecLoad: the quack.yaml documents, the root's and the included
    root,      \* SpecLoad: the root Spec instance and how far from_file got
    call,      \* SpecMatch: a source dependency and the files git lists for it
    result,    \* SpecMatch: what get_matched_files returned or raised
    active,    \* SpecPar: CommandManager._active_commands
    cmd,       \* SpecPar: cmd[s], the execute call and the subprocess of script s
    main,      \* SpecPar: the main thread in execute_scripts_parallel
    sweep,     \* SpecSweep: the Cloud or Dev clear_expired call in progress
    cachedir,  \* SpecClear: the Local cache directory and what Local.clear_expired did
    dest       \* SpecExtract: an archive, the files at its destination, the clock

\* The state of the spec loader, which no step of the engine, of the cache
\* or of a fingerprint run changes.
loaderVars == <<yaml, root>>
matchVars == <<call, result>>
poolVars == <<active, cmd, main>>
diskVars == <<sweep, cachedir, dest>>

vars == <<deps, backend, mode, commitIdx, store, store0, now, serial,
          stack, status, log, op, runs, tree, environ, cmdout, rec, sum,
          keys, isCI, yaml, root, call, result, active, cmd, main,
          sweep, cachedir, dest>>

Targets == 1..NumTargets
Procs == {1, 2}
\* The target whose entry SpecCache's invocations contend for.
ProbeTargets == {1}

Backends == {"raw", "local", "oss", "dev", "serve"}
Modes == {"NORMAL", "DEPS_ONLY", "LOAD_ONLY"}
\* "local": <xdg_cache_home>/quack/<app>; "oss": .quack-cache/<app> (the CI
\* prefix); "dev": .quack-cache-dev/<app>.
Tiers == {"local", "oss", "dev"}

----------------------------------------------------------------------------
(* Files and cache entries *)

File(st, by, mt) == [st |-> st, by |-> by, mtime |-> mt]
NoFile == File("none", 0, 0)
\* An entry written completely by an earlier invocation (content 0).
OldFile == File("full", 0, 0)
NoEntry == [arch |-> NoFile, meta |-> NoFile, cidx |-> NoFile]
OldEntry == [arch |-> OldFile, meta |-> OldFile, cidx |-> NoFile]

Present(f) == f.st # "none"

Shared(st, n, sr) == [store |-> st, now |-> n, serial |-> sr]
SetArch(s, tier, t, f) == [s EXCEPT !.store[tier][t].arch = f]
SetMeta(s, tier, t, f) == [s EXCEPT !.store[tier][t].meta = f]
SetCidx(s, tier, t, f) == [s EXCEPT !.store[tier][t].cidx = f]

----------------------------------------------------------------------------
(* One cache call in progress *)

NewOp(kind, b, t, ci) ==
    [kind |-> kind, b |-> b, t |-> t, pc |-> "begin", res |-> "run",
     px |-> IF b = "oss" THEN "oss" ELSE "dev", uat |-> TRUE, ci |-> ci,
     w |-> 0, lex |-> FALSE, m0 |-> 0, nload |-> 0, ndown |-> 0, nup |-> 0,
     nsave |-> 0, ups |-> <<>>]
IdleOp == [NewOp("idle", "raw", 1, FALSE) EXCEPT !.pc = "idle", !.res = "idle"]

Goto(o, pc) == [o EXCEPT !.pc = pc]
Done(o, r) == [o EXCEPT !.pc = "end", !.res = r]
Conf(o, s) == [o |-> o, s |-> s]

----------------------------------------------------------------------------
(* The object-store driver (utils/oss.py) *)

\* OSSClient.exists: head_object on the key.
OSSExists(s, px, t) == Present(s.store[px][t].meta)

\* The modified_time an object written now can get: OSSFileMetadata carries
\* the store's last_modified, in whole seconds, so a write in the second of
\* the previous write gets the same time, a later one a greater time.
Stamps(s) == {s.now} \cup {n \in {s.now + 1} : n <= MaxClock}

\* OSSClient.upload of the local file `src` of t to the object `dst` under
\* prefix px: put_object replaces the object and stamps its modified_time;
\* a path that is no file, or a failing request, raises OSSError. Only the
\* modified_time of metadata objects is ever read (clear_expired lists
\* include=[CACHE_METADATA_FILENAME]), so the time is kept for those only.
OSSUpload(s, px, t, src, dst) ==
    LET f == s.store["local"][t][src]
        put(n) == [s EXCEPT !.store[px][t][dst] =
                                File(f.st, f.by, IF dst = "meta" THEN n ELSE 0),
                            !.now = n]
        times == IF dst = "meta" THEN Stamps(s) ELSE {s.now}
    IN  IF Present(f)
        THEN {[ok |-> TRUE, s |-> put(n)] : n \in times}
                \cup {[ok |-> FALSE, s |-> s]}
        ELSE {[ok |-> FALSE, s |-> s]}

\* OSSClient.download of object `fld` of t under px: a missing object, or a
\* failing request, raises OSSError.
OSSDownloadable(s, px, t, fld) == Present(s.store[px][t][fld])

----------------------------------------------------------------------------
(* Archiver and Metadata (utils/archiver.py, utils/metadata.py) *)

\* Archiver.archive(paths, archive_path): the tar is built and compressed in
\* memory (may fail on a missing output path), then archive_path is opened
\* for writing (truncated) and the data written.
ArchiverArchive(o, s) ==
    CASE o.pc = "ls_tar" ->
            { Conf([Goto(o, "ls_write") EXCEPT !.w = s.serial + 1],
                   [SetArch(s, "local", o.t, File("partial", s.serial + 1, 0))
                        EXCEPT !.serial = s.serial + 1]),
              Conf(Done(o, "error"), s) }
      [] o.pc = "ls_write" ->
            { Conf(Goto(o, "ls_mopen"),
                   SetArch(s, "local", o.t, File("full", o.w, 0))),
              Conf(Done(o, "error"), s) }

\* Archiver.extract(archive_path): reads and decompresses the archive; an
\* absent or truncated archive raises (never a ChecksumError).
ArchiverExtract(s, t) ==
    IF s.store["local"][t].arch.st = "full" THEN "ok" ELSE "error"

\* OSS.save that uploads the metadata without the archive.
AfterLocalSaveMetaOnly(o) ==
    IF o.b = "local" THEN Done(o, "ok") ELSE Goto(o, "os_upmeta")

\* Where a Local save continues once the metadata is written.
AfterLocalSave(o) ==
    IF o.b = "local" THEN Done(o, "ok") ELSE Goto(o, "os_uparch")

\* Metadata.generate(path, output_path, ...): opens output_path for writing
\* (the file exists, empty), hashes the archive, dumps the JSON.
MetadataGenerate(o, s) ==
    CASE o.pc = "ls_mopen" ->
            { Conf(Goto(o, "ls_mdump"),
                   SetMeta(s, "local", o.t, File("partial", o.w, 0))) }
      [] o.pc = "ls_mdump" ->
            IF Present(s.store["local"][o.t].arch)
            THEN { Conf(AfterLocalSave([o EXCEPT !.nsave = o.nsave + 1]),
                        SetMeta(s, "local", o.t, File("full", o.w, 0))) }
            ELSE { Conf(Done(o, "error"), s) }

----------------------------------------------------------------------------
(* TargetCacheBackendTypeLocal *)

LocalExists(s, t) == Present(s.store["local"][t].meta)

\* Local.load: Archiver.extract of the local archive (the checksum
\* verification is commented out).
LocalLoad(s, t) == ArchiverExtract(s, t)

\* Local.save: Archiver.archive, then Metadata.generate.
LocalSave(o, s) ==
    IF o.pc \in {"ls_tar", "ls_write"}
    THEN ArchiverArchive(o, s)
    ELSE MetadataGenerate(o, s)

LocalSavePcs == {"ls_tar", "ls_write", "ls_mopen", "ls_mdump"}

----------------------------------------------------------------------------
(* TargetCacheBackendTypeOSS, on the prefix o.px *)

\* Where an OSS save continues after its uploads (Serve.save extracts the
\* local archive into SERVE_BASE_PATH; the others return).
AfterOSSSave(o) ==
    IF o.b = "serve" THEN Goto(o, "sv_extract") ELSE Done(o, "ok")

\* Where an OSS load continues once it has loaded (Serve.load extracts too).
AfterOSSLoad(o) ==
    IF o.b = "serve" THEN Goto(o, "sv_extract") ELSE Done(o, "ok")

\* OSS.save after `if self._config.save_for_load and self.get_commits_path()`.
AfterMetaUpload(o) ==
    IF o.ci THEN Goto(o, "os_upcommit") ELSE AfterOSSSave(o)

\* One upload of a save or of update_access_time: an OSSError ends the call.
UploadThen(o, s, src, dst, next) ==
    { IF u.ok THEN Conf([next EXCEPT !.nup = o.nup + 1,
                                     !.ups = Append(o.ups, dst)], u.s)
               ELSE Conf([Done(o, "oss_error") EXCEPT !.nup = o.nup + 1,
                                                      !.ups = Append(o.ups, dst)], u.s)
      : u \in OSSUpload(s, o.px, o.t, src, dst) }

\* OSS.save: local_backend.save, upload of the archive, upload of the
\* metadata, and the commit-index copy when configured.
OSSSave(o, s) ==
    CASE o.pc \in LocalSavePcs -> LocalSave(o, s)
      [] o.pc = "os_uparch" ->
            UploadThen(o, s, "arch", "arch", Goto(o, "os_upmeta"))
      [] o.pc = "os_upmeta" ->
            UploadThen(o, s, "meta", "meta", AfterMetaUpload(o))
      [] o.pc = "os_upcommit" ->
            UploadThen(o, s, "meta", "cidx", AfterOSSSave(o))

OSSSavePcs == LocalSavePcs \cup {"os_uparch", "os_upmeta", "os_upcommit"}

\* OSS.update_access_time: re-uploads the local metadata file.
UpdateAccessTime(o, s) ==
    UploadThen(o, s, "meta", "meta", AfterOSSLoad(o))

\* OSS.load that ignores the Local copy and always downloads.
LoadSourceAlwaysCloud(o, s) == "ol_darch"

\* OSS.load line 180: the Local copy decides between the two paths.
LoadSource(o, s) ==
    IF LocalExists(s, o.t) THEN "ol_lload1" ELSE "ol_darch"

\* OSS.load that never calls update_access_time.
AfterLocalLoadNoTouch(o) == AfterOSSLoad(o)

\* OSS.load lines 183-185 and 197-198: touch only when asked to.
AfterLocalLoad(o) ==
    IF o.uat THEN Goto(o, "ol_touch") ELSE AfterOSSLoad(o)

\* OSS.load(target, update_access_time).
OSSLoad(o, s) ==
    CASE o.pc = "ol_check" ->
            { Conf([Goto(o, LoadSource(o, s)) EXCEPT
                        !.lex = LocalExists(s, o.t),
                        !.m0 = s.store[o.px][o.t].meta.mtime], s) }
      [] o.pc = "ol_lload1" ->
            LET r == LocalLoad(s, o.t)
                c == [o EXCEPT !.nload = o.nload + 1]
            IN  CASE r = "ok" -> { Conf(AfterLocalLoad(c), s) }
                  [] r = "checksum_error" -> { Conf(Goto(c, "ol_darch"), s) }
                  [] OTHER -> { Conf(Done(c, "error"), s) }
      [] o.pc = "ol_darch" ->
            LET c == [o EXCEPT !.ndown = o.ndown + 1]
                f == s.store[o.px][o.t].arch
            IN  { Conf(Done(c, "oss_error"), s) } \cup
                IF OSSDownloadable(s, o.px, o.t, "arch")
                THEN { Conf([Goto(c, "ol_darch2") EXCEPT !.w = f.by],
                            SetArch(s, "local", o.t, File("partial", f.by, 0))) }
                ELSE {}
      [] o.pc = "ol_darch2" ->
            LET f == s.store[o.px][o.t].arch
            IN  { Conf(Done(o, "oss_error"), s) } \cup
                IF OSSDownloadable(s, o.px, o.t, "arch")
                THEN { Conf(Goto(o, "ol_dmeta"),
                            SetArch(s, "local", o.t, File(f.st, f.by, 0))) }
                ELSE {}
      [] o.pc = "ol_dmeta" ->
            LET c == [o EXCEPT !.ndown = o.ndown + 1]
                f == s.store[o.px][o.t].meta
            IN  { Conf(Done(c, "oss_error"), s) } \cup
                IF OSSDownloadable(s, o.px, o.t, "meta")
                THEN { Conf(Goto(c, "ol_lload2"),
                            SetMeta(s, "local", o.t, File(f.st, f.by, 0))) }
                ELSE {}
      [] o.pc = "ol_lload2" ->
            LET c == [o EXCEPT !.nload = o.nload + 1]
            IN  IF LocalLoad(s, o.t) = "ok"
                THEN { Conf(AfterLocalLoad(c), s) }
                ELSE { Conf(Done(c, "error"), s) }
      [] o.pc = "ol_touch" -> UpdateAccessTime(o, s)

OSSLoadPcs == {"ol_check", "ol_lload1", "ol_darch", "ol_darch2", "ol_dmeta",
               "ol_lload2", "ol_touch"}

----------------------------------------------------------------------------
(* TargetCacheBackendTypeDev and TargetCacheBackendTypeServe *)

\* Dev.exists that looks in the CI tier only.
DevExistsCIOnly(s, t) == OSSExists(s, "oss", t)

\* Dev.exists that looks in its own tier only.
DevExistsOwnOnly(s, t) == OSSExists(s, "dev", t)

\* Dev.exists: the CI tier, else its own tier.
DevExists(s, t) ==
    IF OSSExists(s, "oss", t) THEN TRUE ELSE OSSExists(s, "dev", t)

\* Dev.load that passes its own update_access_time on to the CI tier.
DevLoadTouchesCI(o, s) ==
    IF o.pc = "dl_check"
    THEN IF OSSExists(s, "oss", o.t)
         THEN { Conf([o EXCEPT !.pc = "ol_check", !.px = "oss"], s) }
         ELSE { Conf([o EXCEPT !.pc = "ol_check", !.px = "dev"], s) }
    ELSE OSSLoad(o, s)

\* Dev.load: from the CI tier without touching it, else the inherited load.
DevLoad(o, s) ==
    IF o.pc = "dl_check"
    THEN IF OSSExists(s, "oss", o.t)
         THEN { Conf([o EXCEPT !.pc = "ol_check", !.px = "oss", !.uat = FALSE], s) }
         ELSE { Conf([o EXCEPT !.pc = "ol_check", !.px = "dev"], s) }
    ELSE OSSLoad(o, s)

\* Serve.load / Serve.save: the extra Archiver.extract into SERVE_BASE_PATH.
ServeExtract(o, s) ==
    IF ArchiverExtract(s, o.t) = "ok"
    THEN { Conf(Done(o, "ok"), s) }
    ELSE { Conf(Done(o, "error"), s) }

----------------------------------------------------------------------------
(* TargetCache: the calls the engine makes on the selected backend *)

\* TargetCache.hit -> backend.exists(target).
Exists(b, s, t) ==
    CASE b = "raw" -> FALSE
      [] b = "local" -> LocalExists(s, t)
      [] b = "oss" -> OSSExists(s, "oss", t)
      [] OTHER -> DevExists(s, t)

\* First program point of backend.load / backend.save.
Entry(kind, b) ==
    CASE b = "raw" -> "raw"
      [] kind = "save" -> "ls_tar"
      [] b = "local" -> "ll_load"
      [] b = "oss" -> "ol_check"
      [] OTHER -> "dl_check"

StartOp(kind, b, t, ci) == Goto(NewOp(kind, b, t, ci), Entry(kind, b))

\* TargetCache.load -> backend.load(target): one step of it.
Load(o, s) ==
    CASE o.pc = "raw" -> { Conf(Done(o, "ok"), s) }
      [] o.pc = "ll_load" ->
            { Conf(Done([o EXCEPT !.nload = o.nload + 1], LocalLoad(s, o.t)), s) }
      [] o.pc = "sv_extract" -> ServeExtract(o, s)
      [] OTHER -> DevLoad(o, s)

\* TargetCache.save -> backend.save(target): one step of it.
Save(o, s) ==
    CASE o.pc = "raw" -> { Conf(Done(o, "ok"), s) }
      [] o.pc = "sv_extract" -> ServeExtract(o, s)
      [] OTHER -> OSSSave(o, s)

Step(o, s) == IF o.kind = "save" THEN Save(o, s) ELSE Load(o, s)

\* A cache call run to its end without interleaving: every way it can end.
RECURSIVE Run(_)
Run(C) ==
    IF \A c \in C : c.o.res # "run"
    THEN C
    ELSE Run(UNION { IF c.o.res = "run" THEN Step(c.o, c.s) ELSE {c} : c \in C })

Call(kind, b, t, ci, s) == Run({ Conf(StartOp(kind, b, t, ci), s) })

----------------------------------------------------------------------------
(* Fingerprints (models/dependency.py, Target.checksum_value) *)

\* Files of the work tree and names of environment variables.
NumFiles == 2
NumVars == 3
\* Longest list of target-kind dependencies in SpecList.
MaxDeps == 2

Runs == {1, 2}
Files == 1..NumFiles
Contents == {"c0", "c1"}
Absent == "absent"
VarNames == 1..NumVars
VarValues == {"v0", "v1"}
Outputs == {"o0", "o1"}
\* The names the `excludes` patterns of the variable dependency match.
ExcludedVars == {NumVars}

\* hashlib.sha256(...).hexdigest(): collision-free, so the digest stands for
\* what was hashed.
Sha(x) == <<"sha256", x>>

RECURSIVE Ascending(_)
Ascending(S) ==
    IF S = {} THEN <<>>
    ELSE LET m == CHOOSE x \in S : \A y \in S : x <= y
         IN  <<m>> \o Ascending(S \ {m})

\* DependencyTypeSource.get_matched_files: the listed files that exist and
\* match, collected in a set and returned sorted.
GetMatchedFiles(tr) == Ascending({f \in Files : tr[f] # Absent})

GetMatchedFilesWithChecksum(tr) ==
    LET paths == GetMatchedFiles(tr)
    IN  [i \in 1..Len(paths) |-> <<paths[i], Sha(tr[paths[i]])>>]

SourceChecksum(tr) == Sha(GetMatchedFilesWithChecksum(tr))

IsMatchedVariable(kv) == kv[1] \notin ExcludedVars
ByName(a, b) == a[1] < b[1]
\* get_matched_variables keeps os.environ's order; nothing is sorted.
GetMatchedVariablesUnsorted(env) == SelectSeq(env, IsMatchedVariable)

\* DependencyTypeVariable.get_matched_variables: the (name, value) pairs
\* that match and are not excluded, sorted by name.
GetMatchedVariables(env) == SortSeq(SelectSeq(env, IsMatchedVariable), ByName)

VariableChecksum(env) == Sha(GetMatchedVariables(env))

\* DependencyTypeCommand: the (command, output) pairs in list order.
CommandChecksum(out) == Sha(<< <<"command", out>> >>)

VariableDep == [type |-> "variable", target |-> 0]
CommandDep == [type |-> "command", target |-> 0]

\* What one run reads: the work tree, its environment, command outputs.
Inputs(r) == [tree |-> tree, env |-> environ[r], out |-> cmdout]

\* Target._checksum_value: None, assigned from the DB, or computed; n counts
\* the runs of compute_checksum.
NoSum == [by |-> "none", v |-> <<>>, n |-> 0]
NoSums == [t \in Targets |-> NoSum]

\* The checksum_value of one dependency, given the memo of the targets.
DepChecksum(m, d, in) ==
    CASE d.type = "source" -> SourceChecksum(in.tree)
      [] d.type = "variable" -> VariableChecksum(in.env)
      [] d.type = "command" -> CommandChecksum(in.out)
      [] OTHER -> m[d.target].v

\* Positions of a list whose value occurred at no earlier position.
FirstOccurrences(q) == {i \in 1..Len(q) : \A j \in 1..(i - 1) : q[j] # q[i]}

\* A hash tuple that holds the checksum of every dependency once.
HashTupleNoDuplicates(m, ds, in) ==
    LET keep == Ascending(FirstOccurrences(ds))
    IN  [i \in 1..Len(keep) |-> DepChecksum(m, ds[keep[i]], in)]

\* Target.compute_checksum line 185: the checksum values of the
\* dependencies, one per entry of the list, in list order.
HashTuple(m, ds, in) == [i \in 1..Len(ds) |-> DepChecksum(m, ds[i], in)]

\* Target.compute_checksum for a target with dependency list ds.
ComputeChecksum(m, ds, in) == Sha(HashTuple(m, ds, in))

RECURSIVE ChecksumValue(_, _, _)
RECURSIVE WarmDeps(_, _, _, _)
RECURSIVE ChecksumValueNoMemo(_, _, _)
RECURSIVE WarmDepsRecompute(_, _, _, _)
\* Target-kind dependencies that call compute_checksum of their target
\* instead of reading its checksum_value.
WarmDepsRecompute(m, t, i, in) ==
    IF i > Len(deps[t]) THEN m
    ELSE WarmDepsRecompute(IF deps[t][i].type = "target"
                           THEN ChecksumValueNoMemo(m, deps[t][i].target, in)
                           ELSE m,
                           t, i + 1, in)

\* The memo after the checksum_value of every target-kind dependency of t
\* from position i on was read, in list order.
WarmDeps(m, t, i, in) ==
    IF i > Len(deps[t]) THEN m
    ELSE WarmDeps(IF deps[t][i].type = "target"
                  THEN ChecksumValue(m, deps[t][i].target, in)
                  ELSE m,
                  t, i + 1, in)

\* A checksum_value that ignores a value already set and always computes.
ChecksumValueNoMemo(m, t, in) ==
    LET m1 == WarmDeps(m, t, 1, in)
    IN  [m1 EXCEPT ![t] =
            [by |-> "compute", v |-> ComputeChecksum(m1, deps[t], in),
             n |-> m1[t].n + 1]]

\* The memo after Target.checksum_value of t was read: a value already set
\* is returned as it is, otherwise compute_checksum hashes the list of the
\* dependencies' checksum values.
ChecksumValue(m, t, in) ==
    IF m[t].by # "none" THEN m
    ELSE LET m1 == WarmDeps(m, t, 1, in)
         IN  [m1 EXCEPT ![t] =
                 [by |-> "compute", v |-> ComputeChecksum(m1, deps[t], in),
                  n |-> m1[t].n + 1]]

\* Target.cache_path: <name>/<checksum[:2]>/<checksum[2:]>; the two parts
\* are the checksum again.
CachePath(t, cs) == <<t, cs>>

\* DB.query_checksum: the row, or None.
NoRecord == [found |-> FALSE, checksum |-> <<>>]
Record(cs) == [found |-> TRUE, checksum |-> cs]

----------------------------------------------------------------------------
(* Target.execute (models/target.py) *)

SourceDep == [type |-> "source", target |-> 0]
TargetDep(u) == [type |-> "target", target |-> u]

Frame(t, m) == [t |-> t, mode |-> m, pc |-> "start", i |-> 1,
                hit |-> FALSE, next |-> "ret"]
Top == stack[Len(stack)]
SetTop(f) == [stack EXCEPT ![Len(stack)] = f]
\* A log entry: what happened, to which target, at which call depth.
Event(e, t) == [e |-> e, t |-> t, d |-> Len(stack)]

\* The cache paths handed to the backend so far, with the one the backend
\* derives from target t now (Raw never looks at the target).
WithKey(t) ==
    IF backend = "raw" THEN keys
    ELSE keys \cup {CachePath(t, ChecksumValue(sum[1], t, Inputs(1))[t].v)}

CloudBackends == {"oss", "dev", "serve"}

\* Plan with the Serve special case applied to every backend: a hit still
\* prepares the dependencies.
PlanHitRunsDeps(m, b, hit) ==
    CASE m = "DEPS_ONLY" -> [pc |-> "deps", next |-> "ret"]
      [] m = "LOAD_ONLY" ->
            IF hit THEN [pc |-> "load", next |-> "ret"]
                   ELSE [pc |-> "exit", next |-> "ret"]
      [] OTHER -> [pc |-> "deps", next |-> IF hit THEN "load" ELSE "build"]

\* Plan without the exit of LOAD_ONLY on a miss: it builds like NORMAL.
PlanLoadOnlyBuilds(m, b, hit) ==
    CASE m = "DEPS_ONLY" -> [pc |-> "deps", next |-> "ret"]
      [] hit /\ (m = "LOAD_ONLY" \/ b # "serve") -> [pc |-> "load", next |-> "ret"]
      [] OTHER -> [pc |-> "deps", next |-> IF hit THEN "load" ELSE "build"]

\* Plan where DEPS_ONLY falls through to the build / load of the target.
PlanDepsOnlyBuilds(m, b, hit) ==
    CASE m = "LOAD_ONLY" ->
            IF hit THEN [pc |-> "load", next |-> "ret"]
                   ELSE [pc |-> "exit", next |-> "ret"]
      [] m = "NORMAL" /\ hit /\ b # "serve" -> [pc |-> "load", next |-> "ret"]
      [] OTHER -> [pc |-> "deps", next |-> IF hit THEN "load" ELSE "build"]

\* Plan where a miss builds without preparing the dependencies.
PlanMissSkipsDeps(m, b, hit) ==
    CASE m = "DEPS_ONLY" -> [pc |-> "deps", next |-> "ret"]
      [] m = "LOAD_ONLY" ->
            IF hit THEN [pc |-> "load", next |-> "ret"]
                   ELSE [pc |-> "exit", next |-> "ret"]
      [] OTHER ->
            IF b = "serve"
            THEN [pc |-> "deps", next |-> IF hit THEN "load" ELSE "build"]
            ELSE IF hit THEN [pc |-> "load", next |-> "ret"]
                        ELSE [pc |-> "build", next |-> "ret"]

\* Plan where a hit of NORMAL mode is treated as a miss.
PlanHitRebuilds(m, b, hit) ==
    CASE m = "DEPS_ONLY" -> [pc |-> "deps", next |-> "ret"]
      [] m = "LOAD_ONLY" ->
            IF hit THEN [pc |-> "load", next |-> "ret"]
                   ELSE [pc |-> "exit", next |-> "ret"]
      [] OTHER -> [pc |-> "deps", next |-> "build"]

\* Target.execute lines 214-239: what follows the cache lookup. `pc` is the
\* next program point and `next` the one after prepare_deps.
Plan(m, b, hit) ==
    CASE m = "DEPS_ONLY" -> [pc |-> "deps", next |-> "ret"]
      [] m = "LOAD_ONLY" ->
            IF hit THEN [pc |-> "load", next |-> "ret"]
                   ELSE [pc |-> "exit", next |-> "ret"]
      [] OTHER ->
            IF b = "serve"
            THEN [pc |-> "deps", next |-> IF hit THEN "load" ELSE "build"]
            ELSE IF hit THEN [pc |-> "load", next |-> "ret"]
                        ELSE [pc |-> "deps", next |-> "build"]

\* Target.execute lines 237-246: a miss ends with cache.save.
AfterBuild == "save"
AfterSave == "ret"

\* What no step of Target.execute changes (op[1] keeps the record of the
\* last cache call made).
EngineFrame ==
    UNCHANGED <<deps, backend, mode, commitIdx, store0, runs,
                tree, environ, cmdout, rec, isCI, loaderVars,
                matchVars, poolVars, diskVars>>

Apply(s) ==
    /\ store' = s.store
    /\ now' = s.now
    /\ serial' = s.serial

\* An execute_target that falls back to the target of the spec when no
\* checksum is recorded.
ExecuteTargetFallsBack ==
    /\ EngineFrame
    /\ status = "start"
    /\ UNCHANGED <<store, now, serial, op, log, keys>>
    /\ status' = "running"
    /\ stack' = <<Frame(NumTargets, mode)>>
    /\ sum' = IF mode = "LOAD_ONLY" /\ rec.found
              THEN [sum EXCEPT ![1][NumTargets] =
                       [by |-> "db", v |-> rec.checksum, n |-> sum[1][NumTargets].n]]
              ELSE sum

\* cli.execute_target lines 85-93: in LOAD_ONLY mode the target is looked up
\* by job and given the recorded checksum, or the invocation exits with 1;
\* otherwise the target is taken from the spec as it is.
ExecuteTarget ==
    /\ EngineFrame
    /\ status = "start"
    /\ UNCHANGED <<store, now, serial, op, log, keys>>
    /\ IF mode = "LOAD_ONLY" /\ ~rec.found
       THEN /\ status' = "exit1"
            /\ UNCHANGED <<stack, sum>>
       ELSE /\ status' = "running"
            /\ stack' = <<Frame(NumTargets, mode)>>
            /\ sum' = IF mode = "LOAD_ONLY"
                      THEN [sum EXCEPT ![1][NumTargets] =
                               [by |-> "db", v |-> rec.checksum, n |-> sum[1][NumTargets].n]]
                      ELSE sum

\* Lines 204-222: the checksum is logged (line 208), which evaluates
\* checksum_value; then cache.hit() and the branch on the mode.
ExecuteStart ==
    /\ EngineFrame
    /\ status = "running"
    /\ Top.pc = "start"
    /\ UNCHANGED <<store, now, serial, op>>
    /\ sum' = [sum EXCEPT ![1] = ChecksumValue(sum[1], Top.t, Inputs(1))]
    /\ keys' = WithKey(Top.t)
    /\ \/ /\ backend \in CloudBackends
          /\ status' = "error"
          /\ log' = Append(log, Event("exists_error", Top.t))
          /\ UNCHANGED stack
       \/ LET hit == Exists(backend, Shared(store, now, serial), Top.t)
              p == Plan(Top.mode, backend, hit)
              l == Append(log, Event(IF hit THEN "hit" ELSE "miss", Top.t))
          IN  IF p.pc = "exit"
              THEN /\ status' = "exit1"
                   /\ log' = l
                   /\ UNCHANGED stack
              ELSE /\ stack' = SetTop([Top EXCEPT !.hit = hit, !.pc = p.pc,
                                                   !.next = p.next])
                   /\ log' = l
                   /\ UNCHANGED status

\* Target.prepare_deps: every target-kind dependency is executed in NORMAL
\* mode, in list order.
PrepareDeps ==
    /\ EngineFrame
    /\ status = "running"
    /\ Top.pc = "deps"
    /\ UNCHANGED <<store, now, serial, status, log, op, sum, keys>>
    /\ \/ /\ Top.i <= Len(deps[Top.t])
          /\ deps[Top.t][Top.i].type = "target"
          /\ stack' = Append(SetTop([Top EXCEPT !.i = Top.i + 1]),
                             Frame(deps[Top.t][Top.i].target, "NORMAL"))
       \/ /\ Top.i <= Len(deps[Top.t])
          /\ deps[Top.t][Top.i].type # "target"
          /\ stack' = SetTop([Top EXCEPT !.i = Top.i + 1])
       \/ /\ Top.i > Len(deps[Top.t])
          /\ stack' = SetTop([Top EXCEPT !.pc = Top.next])

\* A build whose non-zero exit is not raised: execute goes on to the save.
BuildIgnoresExit ==
    /\ EngineFrame
    /\ status = "running"
    /\ Top.pc = "build"
    /\ UNCHANGED <<store, now, serial, op, sum, keys>>
    /\ \/ /\ stack' = SetTop([Top EXCEPT !.pc = AfterBuild])
          /\ log' = Append(log, Event("build", Top.t))
          /\ UNCHANGED status
       \/ /\ stack' = SetTop([Top EXCEPT !.pc = AfterBuild])
          /\ log' = Append(log, Event("build_failed", Top.t))
          /\ UNCHANGED status

\* Line 235: self.operations.build.execute(); a non-zero exit raises
\* CalledProcessError, which execute does not catch.
Build ==
    /\ EngineFrame
    /\ status = "running"
    /\ Top.pc = "build"
    /\ UNCHANGED <<store, now, serial, op, sum, keys>>
    /\ \/ /\ stack' = SetTop([Top EXCEPT !.pc = AfterBuild])
          /\ log' = Append(log, Event("build", Top.t))
          /\ UNCHANGED status
       \/ /\ status' = "failed"
          /\ log' = Append(log, Event("build_failed", Top.t))
          /\ UNCHANGED stack

\* Lines 219 and 239: cache.load(); nothing here catches its errors.
CacheLoad ==
    /\ EngineFrame
    /\ status = "running"
    /\ Top.pc = "load"
    /\ UNCHANGED sum
    /\ keys' = WithKey(Top.t)
    /\ \E c \in Call("load", backend, Top.t, commitIdx, Shared(store, now, serial)) :
          /\ Apply(c.s)
          /\ op' = [op EXCEPT ![1] = c.o]
          /\ IF c.o.res = "ok"
             THEN /\ stack' = SetTop([Top EXCEPT !.pc = "ret"])
                  /\ log' = Append(log, Event("load", Top.t))
                  /\ UNCHANGED status
             ELSE /\ status' = "error"
                  /\ log' = Append(log, Event("load_failed", Top.t))
                  /\ UNCHANGED stack

\* cache.save() whose OSSError is logged and not followed by sys.exit(1).
CacheSaveLogsOnly ==
    /\ EngineFrame
    /\ status = "running"
    /\ Top.pc = "save"
    /\ UNCHANGED sum
    /\ keys' = WithKey(Top.t)
    /\ \E c \in Call("save", backend, Top.t, commitIdx, Shared(store, now, serial)) :
          /\ Apply(c.s)
          /\ op' = [op EXCEPT ![1] = c.o]
          /\ CASE c.o.res = "ok" ->
                    /\ stack' = SetTop([Top EXCEPT !.pc = AfterSave])
                    /\ log' = Append(log, Event("save", Top.t))
                    /\ UNCHANGED status
               [] c.o.res = "oss_error" ->
                    /\ stack' = SetTop([Top EXCEPT !.pc = AfterSave])
                    /\ log' = Append(log, Event("save_failed", Top.t))
                    /\ UNCHANGED status
               [] OTHER ->
                    /\ status' = "error"
                    /\ log' = Append(log, Event("save_failed", Top.t))
                    /\ UNCHANGED stack

\* Lines 241-246: cache.save(); an OSSError is logged and exits with 1.
CacheSave ==
    /\ EngineFrame
    /\ status = "running"
    /\ Top.pc = "save"
    /\ UNCHANGED sum
    /\ keys' = WithKey(Top.t)
    /\ \E c \in Call("save", backend, Top.t, commitIdx, Shared(store, now, serial)) :
          /\ Apply(c.s)
          /\ op' = [op EXCEPT ![1] = c.o]
          /\ CASE c.o.res = "ok" ->
                    /\ stack' = SetTop([Top EXCEPT !.pc = AfterSave])
                    /\ log' = Append(log, Event("save", Top.t))
                    /\ UNCHANGED status
               [] c.o.res = "oss_error" ->
                    /\ status' = "exit1"
                    /\ log' = Append(log, Event("save_failed", Top.t))
                    /\ UNCHANGED stack
               [] OTHER ->
                    /\ status' = "error"
                    /\ log' = Append(log, Event("save_failed", Top.t))
                    /\ UNCHANGED stack

\* Line 248: execute returns to its caller (prepare_deps, or execute_target).
Return ==
    /\ EngineFrame
    /\ status = "running"
    /\ Top.pc = "ret"
    /\ UNCHANGED <<store, now, serial, op, sum, keys>>
    /\ log' = Append(log, Event("return", Top.t))
    /\ stack' = SubSeq(stack, 1, Len(stack) - 1)
    /\ status' = IF Len(stack) = 1 THEN "done" ELSE "running"

----------------------------------------------------------------------------
(* Spec: one invocation *)

RECURSIVE Desc(_)
Desc(U) ==
    IF U = {} THEN <<>>
    ELSE LET m == CHOOSE x \in U : \A y \in U : y <= x
         IN  <<TargetDep(m)>> \o Desc(U \ {m})

\* Acyclic graphs: target t lists any of the targets below it. Every list
\* starts with the source dependency Target.__init__ inserts at index 0.
DepGraphs ==
    { [t \in Targets |-> <<SourceDep>> \o Desc(g[t])] :
        g \in { h \in [Targets -> SUBSET Targets] :
                    \A t \in Targets : h[t] \subseteq 1..(t - 1) } }

\* The tiers a backend reads, and where earlier invocations left entries.
Placements(b) ==
    CASE b = "raw" -> { {} }
      [] b = "local" -> { {"local"} }
      [] b = "oss" -> { {"oss"}, {"oss", "local"} }
      [] OTHER -> { {"oss"}, {"oss", "local"}, {"dev"}, {"dev", "local"} }

StoreOf(H, pl) ==
    [tier \in Tiers |->
        [t \in Targets |-> IF t \in H /\ tier \in pl THEN OldEntry ELSE NoEntry]]

EngineIdle ==
    /\ op = [p \in Procs |-> IdleOp]
    /\ runs = 0

\* The spec was loaded before the engine started: the loader is at rest.
LoaderIdle ==
    /\ yaml = <<>>
    /\ root = <<>>

\* No source dependency is being matched, no script runs in parallel.
MatchIdle ==
    /\ call = <<>>
    /\ result = <<>>

PoolIdle ==
    /\ active = <<>>
    /\ cmd = <<>>
    /\ main = <<>>

\* No cache is being cleared, nothing is being extracted.
DiskIdle ==
    /\ sweep = <<>>
    /\ cachedir = <<>>
    /\ dest = <<>>

\* One work tree and environment, for the specifications that do not vary
\* the inputs of the fingerprints.
PlainTree == [f \in Files |-> "c0"]
PlainEnviron == [k \in VarNames |-> <<k, "v0">>]
PlainInputs ==
    /\ tree = PlainTree
    /\ environ = [r \in Runs |-> PlainEnviron]
    /\ cmdout = "o0"

\* What another job may have recorded for the requested target: the
\* checksum of these inputs, or the one of a tree with other content.
Recordable ==
    { ChecksumValue(NoSums, NumTargets,
                    [tree |-> tr, env |-> PlainEnviron, out |-> "o0"])[NumTargets].v :
        tr \in {PlainTree, [PlainTree EXCEPT ![1] = "c1"]} }

Init ==
    /\ deps \in DepGraphs
    /\ backend \in Backends
    /\ mode \in Modes
    /\ commitIdx \in (IF backend \in CloudBackends THEN BOOLEAN ELSE {FALSE})
    /\ \E H \in SUBSET Targets : \E pl \in Placements(backend) :
          store = StoreOf(H, pl)
    /\ store0 = store
    /\ now = 0
    /\ serial = 0
    /\ PlainInputs
    /\ isCI = (mode = "LOAD_ONLY" \/ commitIdx)
    /\ rec \in (IF mode = "LOAD_ONLY"
                THEN {NoRecord} \cup {Record(cs) : cs \in Recordable}
                ELSE {NoRecord})
    /\ sum = [r \in Runs |-> NoSums]
    /\ keys = {}
    /\ stack = <<>>
    /\ status = "start"
    /\ log = <<>>
    /\ EngineIdle
    /\ LoaderIdle
    /\ MatchIdle
    /\ PoolIdle
    /\ DiskIdle

Next ==
    \/ ExecuteTarget
    \/ ExecuteStart
    \/ PrepareDeps
    \/ Build
    \/ CacheLoad
    \/ CacheSave
    \/ Return

Spec == Init /\ [][Next]_vars

----------------------------------------------------------------------------
(* SpecCache: invocations of Target.execute in NORMAL mode on one host,   *)
(* interleaved at the granularity of the cache's file operations.         *)

\* What no step of a cache call changes.
CacheFrame ==
    UNCHANGED <<deps, backend, mode, commitIdx, store0, stack, status, log,
                tree, environ, cmdout, rec, sum, keys, isCI, loaderVars,
                matchVars, poolVars, diskVars>>

Busy(p) == op[p].kind \in {"save", "load"} /\ op[p].res = "run"

\* A new invocation in slot p, once the previous one there has ended:
\* Target.execute lines 211-212 and the branch on the result, a hit goes
\* to cache.load, a miss to the build command.
Invoke(p) ==
    /\ CacheFrame
    /\ ~Busy(p) /\ op[p].kind # "build"
    /\ runs < MaxRuns
    /\ runs' = runs + 1
    /\ UNCHANGED <<store, now, serial>>
    /\ \E b \in Backends : \E t \in ProbeTargets :
          IF Exists(b, Shared(store, now, serial), t)
          THEN op' = [op EXCEPT ![p] = StartOp("load", b, t, commitIdx)]
          ELSE op' = [op EXCEPT ![p] = Goto(NewOp("build", b, t, commitIdx), "build")]

\* Target.execute line 235 followed by cache.save, or the build failing.
BuildStep(p) ==
    /\ CacheFrame
    /\ op[p].kind = "build"
    /\ UNCHANGED <<store, now, serial, runs>>
    /\ \/ op' = [op EXCEPT ![p] = StartOp("save", op[p].b, op[p].t, op[p].ci)]
       \/ op' = [op EXCEPT ![p] = IdleOp]

\* One file operation of the cache call in progress.
CacheStep(p) ==
    /\ CacheFrame
    /\ Busy(p)
    /\ UNCHANGED runs
    /\ \E c \in Step(op[p], Shared(store, now, serial)) :
          /\ Apply(c.s)
          /\ op' = [op EXCEPT ![p] = c.o]

\* SIGINT / SIGTERM: _signal_handler ends the process where it stands.
Interrupt(p) ==
    /\ CacheFrame
    /\ Busy(p)
    /\ UNCHANGED <<store, now, serial, runs>>
    /\ op' = [op EXCEPT ![p] = IdleOp]

InitCache ==
    /\ deps = [t \in Targets |-> <<SourceDep>>]
    /\ backend = "raw"
    /\ mode = "NORMAL"
    /\ commitIdx \in BOOLEAN
    /\ \E H \in SUBSET {"oss", "dev"} :
          store = [tier \in Tiers |-> [t \in Targets |->
                      IF t \in ProbeTargets /\ tier \in H
                      THEN OldEntry ELSE NoEntry]]
    /\ store0 = store
    /\ now = 0
    /\ serial = 0
    /\ PlainInputs
    /\ rec = NoRecord
    /\ isCI = commitIdx
    /\ sum = [r \in Runs |-> NoSums]
    /\ keys = {}
    /\ stack = <<>>
    /\ status = "idle"
    /\ log = <<>>
    /\ EngineIdle
    /\ LoaderIdle
    /\ MatchIdle
    /\ PoolIdle
    /\ DiskIdle

NextCache ==
    \E p \in Procs :
        \/ Invoke(p)
        \/ BuildStep(p)
        \/ CacheStep(p)
        \/ Interrupt(p)

SpecCache == InitCache /\ [][NextCache]_vars

\* A host whose Local tier may already hold the entry, intact, from earlier
\* invocations, next to what the cloud tiers hold; CI=true or not, and a
\* commit SHA in the environment or not.
InitHost ==
    /\ deps = [t \in Targets |-> <<SourceDep>>]
    /\ backend = "raw"
    /\ mode = "NORMAL"
    /\ commitIdx \in BOOLEAN
    /\ \E H \in SUBSET Tiers :
          store = [tier \in Tiers |-> [t \in Targets |->
                      IF t \in ProbeTargets /\ tier \in H
                      THEN OldEntry ELSE NoEntry]]
    /\ store0 = store
    /\ now = 0
    /\ serial = 0
    /\ PlainInputs
    /\ rec = NoRecord
    /\ isCI \in BOOLEAN
    /\ sum = [r \in Runs |-> NoSums]
    /\ keys = {}
    /\ stack = <<>>
    /\ status = "idle"
    /\ log = <<>>
    /\ EngineIdle
    /\ LoaderIdle
    /\ MatchIdle
    /\ PoolIdle
    /\ DiskIdle

\* SpecSeq: the same invocations one after the other (a single writer).
NextSeq ==
    \/ Invoke(1)
    \/ BuildStep(1)
    \/ CacheStep(1)
    \/ Interrupt(1)

SpecSeq == InitHost /\ [][NextSeq]_vars

----------------------------------------------------------------------------
(* SpecSum: two runs that compute fingerprints over the same work tree,    *)
(* the same matched environment values and the same command outputs.       *)

\* Every target with the three input kinds, then its target dependencies.
SumGraphs ==
    { [t \in Targets |-> <<SourceDep, VariableDep, CommandDep>> \o Desc(g[t])] :
        g \in { h \in [Targets -> SUBSET Targets] :
                    \A t \in Targets : h[t] \subseteq 1..(t - 1) } }

\* Work trees: the plain one, or one file of it changed or missing (the
\* patterns of a source dependency must match something).
Trees ==
    {PlainTree} \cup
    { [PlainTree EXCEPT ![f] = c] : f \in Files, c \in {"c1", Absent} }

\* Values of the variables: all plain, or one of the matched ones changed.
Environments ==
    { [k \in VarNames |-> "v0"] } \cup
    { [[k \in VarNames |-> "v0"] EXCEPT ![n] = "v1"] :
        n \in VarNames \ ExcludedVars }

Reverse(q) == [i \in 1..Len(q) |-> q[Len(q) + 1 - i]]

\* os.environ.items() of a process holding values E: in some order.
Items(E) ==
    LET asc == [k \in VarNames |-> <<k, E[k]>>]
    IN  {asc, Reverse(asc)}

SumFrame ==
    UNCHANGED <<deps, backend, mode, commitIdx, store, store0, now, serial,
                stack, status, log, op, runs, tree, environ, cmdout, rec,
                keys, isCI, loaderVars,
                matchVars, poolVars, diskVars>>

\* Run r reads the checksum_value property of target t (Target.execute line
\* 208 reads the one of the target it executes).
ReadChecksum(r, t) ==
    /\ SumFrame
    /\ sum[r][t].by = "none"
    /\ sum' = [sum EXCEPT ![r] = ChecksumValue(sum[r], t, Inputs(r))]

InitSum ==
    /\ deps \in SumGraphs
    /\ backend = "raw"
    /\ mode = "NORMAL"
    /\ commitIdx = FALSE
    /\ store = StoreOf({}, {})
    /\ store0 = store
    /\ now = 0
    /\ serial = 0
    /\ stack = <<>>
    /\ status = "idle"
    /\ log = <<>>
    /\ EngineIdle
    /\ LoaderIdle
    /\ MatchIdle
    /\ PoolIdle
    /\ DiskIdle
    /\ tree \in Trees
    /\ cmdout \in Outputs
    /\ \E E \in Environments : \E x \in VarValues :
          \E e1 \in Items(E) :
          \E e2 \in Items([k \in VarNames |-> IF k \in ExcludedVars THEN x ELSE E[k]]) :
              environ = [r \in Runs |-> IF r = 1 THEN e1 ELSE e2]
    /\ rec = NoRecord
    /\ sum = [r \in Runs |-> NoSums]
    /\ keys = {}
    /\ isCI = FALSE

\* Run 1 reads the fingerprint of the requested target, which computes
\* everything upstream of it; run 2 reads the targets in any order.
NextSum ==
    \/ ReadChecksum(1, NumTargets)
    \/ \E t \in Targets : ReadChecksum(2, t)

SpecSum == InitSum /\ [][NextSum]_vars

----------------------------------------------------------------------------
(* SpecList: the fingerprint runs of SpecSum over specs whose targets list *)
(* their target-kind dependencies in any order and any number of times.    *)

\* The lists of at most MaxDeps dependencies on targets below t.
TargetLists(t) ==
    UNION { [1..n -> {TargetDep(u) : u \in 1..(t - 1)}] : n \in 0..MaxDeps }

\* The specs of targets 1..n: every list starts with the source dependency
\* Target.__init__ inserts at index 0.
RECURSIVE ListGraphsTo(_)
ListGraphsTo(n) ==
    IF n = 0 THEN {<<>>}
    ELSE { Append(g, <<SourceDep>> \o q) :
             g \in ListGraphsTo(n - 1), q \in TargetLists(n) }

InitList ==
    /\ deps \in ListGraphsTo(NumTargets)
    /\ backend = "raw"
    /\ mode = "NORMAL"
    /\ commitIdx = FALSE
    /\ store = StoreOf({}, {})
    /\ store0 = store
    /\ now = 0
    /\ serial = 0
    /\ stack = <<>>
    /\ status = "idle"
    /\ log = <<>>
    /\ EngineIdle
    /\ LoaderIdle
    /\ MatchIdle
    /\ PoolIdle
    /\ DiskIdle
    /\ tree \in Trees
    /\ environ = [r \in Runs |-> PlainEnviron]
    /\ cmdout = "o0"
    /\ rec = NoRecord
    /\ sum = [r \in Runs |-> NoSums]
    /\ keys = {}
    /\ isCI = FALSE

SpecList == InitList /\ [][NextSum]_vars

----------------------------------------------------------------------------
(* Properties of Target.execute, checked under Spec *)

Requested == NumTargets
Opens == {"hit", "miss"}
CacheEvents == {"load", "load_failed", "save", "save_failed"}
OwnWork == CacheEvents \cup {"build", "build_failed"}

\* The execution that log[k] belongs to runs in NORMAL mode: every nested
\* execution does, the requested target's runs in `mode`.
NormalAt(k) == log[k].d > 1 \/ mode = "NORMAL"

\* log[k] is the return of an execution that resolved its target: the cache
\* entry was loaded, or the build completed and was saved.
Resolved(k) ==
    /\ log[k].e = "return"
    /\ k > 1
    /\ log[k - 1].t = log[k].t
    /\ log[k - 1].d = log[k].d
    /\ \/ log[k - 1].e = "load"
       \/ /\ log[k - 1].e = "save"
          /\ k > 2
          /\ log[k - 2] = [log[k] EXCEPT !.e = "build"]

\* Index of the cache lookup that opened the execution log[k] belongs to.
OpenOf(k) ==
    CHOOSE j \in 1..k :
        /\ log[j].e \in Opens /\ log[j].t = log[k].t /\ log[j].d = log[k].d
        /\ \A i \in (j + 1)..k :
              ~(log[i].e \in Opens /\ log[i].t = log[k].t /\ log[i].d = log[k].d)

DirectDeps(t) ==
    { deps[t][i].target : i \in { j \in 1..Len(deps[t]) : deps[t][j].type = "target" } }

RECURSIVE Upstream(_)
Upstream(t) == DirectDeps(t) \cup UNION { Upstream(u) : u \in DirectDeps(t) }

\* C1: every NORMAL execution that returns has a cache.load of its target
\* as its last cache operation, on a hit and on a miss (after the save).
C1_NormalEndsWithLoad ==
    \A k \in 1..Len(log) :
        (log[k].e = "return" /\ NormalAt(k)) =>
            \E j \in OpenOf(k)..k :
                /\ log[j] = [log[k] EXCEPT !.e = "load"]
                /\ \A i \in (j + 1)..k : log[i].d = log[k].d => log[i].e \notin CacheEvents

\* C2: a NORMAL execution whose lookup hit (backend other than Serve) goes
\* straight to one cache.load of its target and then returns: no build, no
\* save, no upstream execution.
C2_HitLoadsOnce ==
    \A k \in 1..Len(log) :
        (log[k].e = "hit" /\ NormalAt(k) /\ backend # "serve") =>
            /\ k + 1 <= Len(log) =>
                  \/ log[k + 1] = [log[k] EXCEPT !.e = "load"]
                  \/ log[k + 1] = [log[k] EXCEPT !.e = "load_failed"]
            /\ k + 2 <= Len(log) =>
                  /\ log[k + 1].e = "load"
                  /\ log[k + 2] = [log[k] EXCEPT !.e = "return"]
            /\ (status = "running" /\ k = Len(log)) => Top.pc = "load"

C2_Witness ==
    /\ mode = "NORMAL" /\ backend = "oss" /\ status = "done"
    /\ Len(log) = 3 /\ log[1].e = "hit" /\ log[2].e = "load"

\* C3: LOAD_ONLY on a miss exits with a failure and touches nothing: no
\* load, save, build or upstream execution, and every tier is as it was.
C3_LoadOnlyMiss ==
    (mode = "LOAD_ONLY" /\ Len(log) >= 1 /\ log[1].e = "miss") =>
        /\ status = "exit1"
        /\ Len(log) = 1
        /\ Len(stack) = 1
        /\ store = store0

C3_Witness ==
    /\ mode = "LOAD_ONLY" /\ status = "exit1" /\ backend = "dev"
    /\ Len(log) = 1 /\ log[1].e = "miss"
    /\ Cardinality(DirectDeps(Requested)) = 2
    /\ \E t \in Targets : Present(store["local"][t].meta)

\* C4: in DEPS_ONLY mode, hit or miss, the requested target's build, load
\* and save are never invoked, and when execute returns every target-kind
\* dependency has been executed, in list order, each one resolved.
C4_DepsOnly ==
    mode = "DEPS_ONLY" =>
        /\ \A k \in 1..Len(log) : log[k].d = 1 => log[k].e \notin OwnWork
        /\ status = "done" =>
              LET runs2 == SelectSeq(log, LAMBDA ev : ev.d = 2 /\ ev.e \in Opens)
                  want == SelectSeq(deps[Requested], LAMBDA dp : dp.type = "target")
              IN  /\ Len(runs2) = Len(want)
                  /\ \A i \in 1..Len(want) : runs2[i].t = want[i].target
                  /\ \A k \in 1..Len(log) :
                        (log[k].e = "return" /\ log[k].d = 2) => Resolved(k)
                  /\ Cardinality({ k \in 1..Len(log) : log[k].e = "return" /\ log[k].d = 2 })
                        = Len(want)

C4_Witness ==
    /\ mode = "DEPS_ONLY" /\ status = "done"
    /\ Cardinality(DirectDeps(Requested)) = 2
    /\ log[1].e = "hit"
    /\ \E k \in 1..Len(log) : log[k].e = "build"
    /\ \E k \in 1..Len(log) : log[k].e = "load"

Builds == {"build", "build_failed"}

\* C5 as claimed: when t's build command is invoked every transitive
\* upstream target of t has been resolved, and no upstream build or load
\* happens afterwards.
C5_AllUpstreamResolved ==
    \A k \in 1..Len(log) :
        log[k].e \in Builds =>
            /\ \A u \in Upstream(log[k].t) :
                  \E j \in 1..(k - 1) : log[j].t = u /\ Resolved(j)
            /\ \A j \in (k + 1)..Len(log) :
                  log[j].t \in Upstream(log[k].t) =>
                      log[j].e \notin (Builds \cup {"load", "load_failed"})

\* C5 amended: within the call of execute that invokes t's build command,
\* every target-kind dependency listed by t has been executed to completion
\* and resolved before the build starts, and the build is followed directly
\* by the save of t.
C5_DirectDepsResolved ==
    \A k \in 1..Len(log) :
        log[k].e \in Builds =>
            /\ \A u \in DirectDeps(log[k].t) :
                  \E j \in (OpenOf(k) + 1)..(k - 1) :
                      /\ log[j].t = u
                      /\ log[j].d = log[k].d + 1
                      /\ Resolved(j)
            /\ k < Len(log) =>
                  /\ log[k].e = "build"
                  /\ log[k + 1].t = log[k].t
                  /\ log[k + 1].d = log[k].d
                  /\ log[k + 1].e \in {"save", "save_failed"}

\* The requested target was built although an upstream target behind a
\* cache hit was never executed.
C5_Witness ==
    /\ status = "done"
    /\ \E k \in 1..Len(log) :
          log[k].e = "build" /\ log[k].t = Requested /\ log[k].d = 1
    /\ DirectDeps(Requested) # {}
    /\ \E u \in Upstream(Requested) : \A k \in 1..Len(log) : log[k].t # u

----------------------------------------------------------------------------
(* Properties of the cache backends, checked under SpecCache and SpecSeq *)

Cur == Shared(store, now, serial)
SaveReturns(p) == op[p].kind = "save" /\ op[p].res = "run" /\ op'[p].res = "ok"

\* C6 as claimed: for every backend, Raw included, exists(t) is true as
\* soon as save(t) has returned.
C6_SaveThenExistsAll ==
    [][\A p \in Procs :
          SaveReturns(p) =>
              Exists(op[p].b, Shared(store', now', serial'), op[p].t)]_vars

\* C6 amended: for every backend other than Raw, exists(t) is true as soon
\* as save(t) has returned.
C6_SaveThenExists ==
    [][\A p \in Procs :
          (SaveReturns(p) /\ op[p].b # "raw") =>
              Exists(op[p].b, Shared(store', now', serial'), op[p].t)]_vars

C6_Witness ==
    \E p \in Procs :
        /\ op[p].kind = "save" /\ op[p].res = "ok" /\ op[p].b = "dev"
        /\ ~OSSExists(Cur, "oss", op[p].t)

\* C7: in the Local tier and in the cloud tiers, metadata present implies
\* the archive present and completely written, at every state of a save.
C7_MetadataImpliesArchive ==
    \A tier \in Tiers : \A t \in Targets :
        Present(store[tier][t].meta) => store[tier][t].arch.st = "full"

\* C8: once the metadata of an entry is written, the archive is never
\* rewritten and the metadata content never changes; only its modified
\* time may.
C8_EntryImmutable ==
    [][\A tier \in Tiers : \A t \in Targets :
          store[tier][t].meta.st = "full" =>
              /\ store'[tier][t].arch.st = store[tier][t].arch.st
              /\ store'[tier][t].arch.by = store[tier][t].arch.by
              /\ store'[tier][t].meta.st = "full"
              /\ store'[tier][t].meta.by = store[tier][t].meta.by]_vars

CloudLoad(p) == op[p].kind = "load" /\ op[p].b \in CloudBackends

Touches(p) ==
    /\ CloudLoad(p) /\ op[p].pc = "ol_touch"
    /\ op'[p].kind = "load" /\ op'[p].res # "oss_error"
    /\ op'[p].nup = op[p].nup + 1

\* C9 as claimed: a Cloud load with update_access_time that succeeds leaves
\* the remote metadata's modified_time strictly greater than before the load.
C9_TouchStrictlyAdvances ==
    [][\A p \in Procs :
          Touches(p) => store'[op[p].px][op[p].t].meta.mtime > op[p].m0]_vars

\* C9 amended: a Cloud load with update_access_time that succeeds, on either
\* path, re-uploads the metadata exactly once, which sets the remote
\* modified_time to the time of that upload, never earlier than its value
\* before the load; a load without update_access_time uploads nothing.
C9_LoadTouches ==
    [][\A p \in Procs :
          CloudLoad(p) =>
              /\ Touches(p) =>
                    /\ store'[op[p].px][op[p].t].meta.mtime = now'
                    /\ store'[op[p].px][op[p].t].meta.mtime >= op[p].m0
              /\ (op[p].res = "run" /\ op'[p].res = "ok") =>
                    op'[p].nup = IF op'[p].uat THEN 1 ELSE 0
              /\ (op[p].res = "run" /\ op'[p].kind = "load" /\ ~op'[p].uat) =>
                    op'[p].nup = 0]_vars

C9_Witness ==
    \E p \in Procs :
        /\ CloudLoad(p) /\ op[p].res = "ok" /\ op[p].uat
        /\ op[p].lex /\ op[p].m0 > 0
        /\ store[op[p].px][op[p].t].meta.mtime = op[p].m0

\* C10: a Cloud load downloads exactly when the Local copy is missing, then
\* both the archive and the metadata before loading; Local.load runs once.
C10_LocalFirst ==
    \A p \in Procs :
        (CloudLoad(p) /\ op[p].pc \notin {"dl_check", "ol_check"}) =>
            /\ op[p].lex => op[p].ndown = 0
            /\ (~op[p].lex /\ op[p].nload > 0) => op[p].ndown = 2
            /\ op[p].nload <= 1
            /\ op[p].res = "ok" =>
                  /\ op[p].nload = 1
                  /\ op[p].ndown = IF op[p].lex THEN 0 ELSE 2

C10_Witness ==
    \E p \in Procs :
        /\ CloudLoad(p) /\ op[p].res = "ok"
        /\ ~op[p].lex /\ op[p].ndown = 2 /\ op[p].nload = 1
        /\ LocalExists(Cur, op[p].t)

CloudSave(p) == op[p].kind = "save" /\ op[p].b \in CloudBackends

IsPrefix(a, b) == Len(a) <= Len(b) /\ \A i \in 1..Len(a) : a[i] = b[i]

\* C11: a Cloud save runs Local.save once before any upload, then uploads
\* the archive and then the metadata of the entry (the commit-index copy
\* comes after them and only when configured); a save that returns has
\* uploaded exactly those two, and a failed Local save uploads nothing.
C11_SaveOrder ==
    \A p \in Procs :
        CloudSave(p) =>
            /\ op[p].nsave <= 1
            /\ op[p].ups # <<>> => op[p].nsave = 1
            /\ IsPrefix(op[p].ups, <<"arch", "meta", "cidx">>)
            /\ Len(op[p].ups) = 3 => op[p].ci
            /\ op[p].res = "ok" =>
                  /\ op[p].nsave = 1
                  /\ SelectSeq(op[p].ups, LAMBDA x : x # "cidx") = <<"arch", "meta">>
            /\ (op[p].res = "error" /\ op[p].nsave = 0) => op[p].ups = <<>>

C11_Witness ==
    \E p \in Procs :
        /\ CloudSave(p) /\ op[p].res = "ok" /\ ~op[p].ci
        /\ op[p].ups = <<"arch", "meta">>
        /\ store[op[p].px][op[p].t].meta.by = op[p].w

DevLoadStep(p) ==
    /\ op[p].kind = "load" /\ op[p].b \in {"dev", "serve"} /\ op[p].res = "run"
    /\ op'[p] # op[p] /\ op'[p].kind = "load"

\* C12: a Dev load goes to the CI tier exactly when the CI tier has the
\* entry, and then no step of it changes the CI tier or the dev tier or
\* uploads anything; otherwise it is the Cloud load on the dev prefix, with
\* update_access_time, and leaves the CI tier alone.
C12_DevLoadFrame ==
    [][\A p \in Procs :
          DevLoadStep(p) =>
              /\ op[p].pc = "dl_check" =>
                    /\ op'[p].px = IF OSSExists(Cur, "oss", op[p].t) THEN "oss" ELSE "dev"
                    /\ op'[p].uat = ~OSSExists(Cur, "oss", op[p].t)
                    /\ op'[p].pc = "ol_check"
              /\ (op[p].pc # "dl_check" /\ op[p].px = "oss") =>
                    /\ store'["oss"] = store["oss"]
                    /\ store'["dev"] = store["dev"]
                    /\ op'[p].ups = <<>>
              /\ (op[p].pc # "dl_check" /\ op[p].px = "dev") =>
                    store'["oss"] = store["oss"]]_vars

C12_Witness ==
    \E p \in Procs :
        /\ op[p].kind = "load" /\ op[p].b = "dev" /\ op[p].res = "ok"
        /\ op[p].px = "oss" /\ op[p].ndown = 2 /\ op[p].ups = <<>>
        /\ OSSExists(Cur, "dev", op[p].t)
        /\ store["oss"] = store0["oss"] /\ store["dev"] = store0["dev"]

HoldsMetadata(tier, t) == store[tier][t].meta.st # "none"

\* C13: Dev.exists(t) is true exactly when the CI tier or the dev tier
\* holds the metadata object of t.
C13_DevExistsIff ==
    \A t \in Targets :
        DevExists(Cur, t) <=> (HoldsMetadata("oss", t) \/ HoldsMetadata("dev", t))

C13_Witness ==
    \E p \in Procs :
        /\ op[p].kind = "load" /\ op[p].b = "dev" /\ op[p].pc = "dl_check"
        /\ ~HoldsMetadata("oss", op[p].t) /\ HoldsMetadata("dev", op[p].t)
        /\ store["dev"][op[p].t].meta.by > 0

LocalLoadFails(p) ==
    /\ CloudLoad(p) /\ op[p].res = "run" /\ op[p].pc = "ol_lload1"
    /\ op'[p] # op[p] /\ op'[p].kind = "load"
    /\ LocalLoad(Cur, op[p].t) # "ok"

\* C14: when a Cloud load finds the Local copy present and Local.load fails
\* on its archive, the load does not fail: it goes on to download the
\* archive and the metadata from the cloud.
C14_CorruptLocalRecovered ==
    [][\A p \in Procs :
          LocalLoadFails(p) => (op'[p].res = "run" /\ op'[p].pc = "ol_darch")]_vars

LastEvent == log[Len(log)]

\* C15: when cache.save raises a cloud storage error the invocation ends
\* there with exit status 1: the failed save is the last event and execute
\* never returns; if the failure came no later than the metadata upload the
\* backend's exists(t) is still false.
C15_SaveErrorExits ==
    /\ \A k \in 1..Len(log) :
          log[k].e = "save_failed" =>
              /\ k = Len(log)
              /\ status \in {"exit1", "error"}
              /\ NormalAt(k)
    /\ (Len(log) >= 1 /\ LastEvent.e = "save_failed" /\ op[1].res = "oss_error") =>
          /\ status = "exit1"
          /\ op[1].t = LastEvent.t
          /\ Len(op[1].ups) <= 2 =>
                ~Exists(backend, Cur, LastEvent.t)
          /\ Len(op[1].ups) = 3 =>
                Exists(backend, Cur, LastEvent.t)

C15_Witness ==
    /\ status = "exit1" /\ backend = "dev"
    /\ Len(log) > 3 /\ LastEvent.e = "save_failed" /\ LastEvent.t = Requested
    /\ op[1].res = "oss_error" /\ op[1].ups = <<"arch">>
    /\ store["local"][Requested].meta.st = "full"

\* The exit status of the invocation: sys.exit(1) inside execute, the
\* CalledProcessError caught by execute_target, an uncaught exception.
ExitStatus(st) == IF st = "done" THEN 0 ELSE 1

\* Index of the last cache lookup made at call depth j.
LastOpenAt(j) ==
    CHOOSE o \in 1..Len(log) :
        /\ log[o].d = j /\ log[o].e \in Opens
        /\ \A i \in (o + 1)..Len(log) : ~(log[i].d = j /\ log[i].e \in Opens)

\* C16: a failing build command ends the invocation with exit status 1:
\* nothing follows it, so the failing target is not saved and none of the
\* executions waiting on it (the downstream targets) has built or saved;
\* what upstream executions saved earlier, and what the cache held before,
\* is still there.
C16_BuildFailureStops ==
    \A k \in 1..Len(log) :
        log[k].e = "build_failed" =>
            /\ k = Len(log)
            /\ status = "failed" /\ ExitStatus(status) = 1
            /\ log[k].d = Len(stack)
            /\ \A j \in 1..Len(stack) :
                  /\ log[LastOpenAt(j)].t = stack[j].t
                  /\ \A i \in (LastOpenAt(j) + 1)..(k - 1) :
                        log[i].d = j => log[i].e \notin OwnWork
            /\ \A i \in 1..(k - 1) :
                  (log[i].e = "save" /\ backend # "raw") =>
                      Exists(backend, Cur, log[i].t)
            /\ \A tier \in Tiers : \A t \in Targets :
                  Present(store0[tier][t].meta) =>
                      Present(store[tier][t].meta)

C16_Witness ==
    /\ status = "failed" /\ backend = "oss" /\ Len(stack) = 2
    /\ LastEvent.e = "build_failed"
    /\ \E i \in 1..Len(log) :
          /\ log[i].e = "save" /\ log[i].d = 2
          /\ OSSExists(Cur, "oss", log[i].t)
          /\ ~Present(store0["oss"][log[i].t].meta)

----------------------------------------------------------------------------
(* Properties of execute_target and of the fingerprints *)

\* What compute_checksum would give for the requested target.
Computable == ChecksumValue(NoSums, Requested, Inputs(1))[Requested].v

\* C17: in LOAD_ONLY mode with a recorded checksum, the requested target
\* holds the recorded value from before Target.execute starts until the
\* end, it is never computed from the dependencies, and every cache lookup
\* and load is made at the cache_path of the recorded value.
C17_RecordedChecksumUsed ==
    (mode = "LOAD_ONLY" /\ rec.found /\ status # "start") =>
        /\ sum[1][Requested] = [by |-> "db", v |-> rec.checksum, n |-> 0]
        /\ \A u \in Targets \ {Requested} : sum[1][u] = NoSum
        /\ \A k \in 1..Len(log) : log[k].t = Requested
        /\ keys \subseteq {CachePath(Requested, rec.checksum)}
        /\ (Len(log) >= 1 /\ backend # "raw") => keys # {}

C17_Witness ==
    /\ mode = "LOAD_ONLY" /\ rec.found /\ rec.checksum # Computable
    /\ status = "done" /\ keys # {}
    /\ \E k \in 1..Len(log) : log[k].e = "load"

\* C18: in LOAD_ONLY mode without a recorded checksum the invocation exits
\* with status 1 before Target.execute: no lookup, load, save or build, and
\* the cache is as it was.
C18_NoRecordExits ==
    (mode = "LOAD_ONLY" /\ ~rec.found /\ status # "start") =>
        /\ status = "exit1" /\ ExitStatus(status) = 1
        /\ log = <<>>
        /\ stack = <<>>
        /\ store = store0
        /\ op = [p \in Procs |-> IdleOp]
        /\ sum[1] = NoSums
        /\ keys = {}

C18_Witness ==
    /\ mode = "LOAD_ONLY" /\ ~rec.found /\ status = "exit1"
    /\ backend = "oss"
    /\ OSSExists(Cur, "oss", Requested)

\* The commit-index upload was attempted by the cache call of invocation p.
CommitIndexSent(p) == \E i \in 1..Len(op[p].ups) : op[p].ups[i] = "cidx"

\* C19 as claimed: a commit-index object exists, or its upload is attempted,
\* only with save_for_load configured and a commit SHA known, in CI, by
\* a save whose archive and metadata uploads both succeeded before; a load
\* (a cache hit) never writes it.
C19_CommitIndexOnlyInCI ==
    /\ \A tier \in Tiers : \A t \in Targets :
          Present(store[tier][t].cidx) =>
              /\ commitIdx /\ isCI
              /\ Present(store[tier][t].arch) /\ Present(store[tier][t].meta)
    /\ \A p \in Procs :
          CommitIndexSent(p) =>
              /\ op[p].kind = "save" /\ mode = "NORMAL"
              /\ commitIdx /\ isCI
              /\ IsPrefix(<<"arch", "meta">>, op[p].ups)

\* The fingerprint of t as a function of the inputs alone.
Fingerprint(t, in) == ChecksumValue(NoSums, t, in)[t].v

\* What the fingerprints are allowed to depend on: the work tree, the
\* matched variables by name, the command outputs.
SameInputs ==
    \A k \in VarNames \ ExcludedVars :
        \A i, j \in 1..Len(environ[1]) :
            (environ[1][i][1] = k /\ environ[2][j][1] = k) =>
                environ[1][i][2] = environ[2][j][2]

\* C20: two runs on the same inputs hold the same checksum_value for every
\* target both have evaluated, whatever the order in which the targets were
\* read, the order of the environment or the value of an excluded variable;
\* the value is the one obtained from the inputs alone.
C20_FingerprintDeterminism ==
    SameInputs =>
        \A t \in Targets :
            /\ (sum[1][t].by # "none" /\ sum[2][t].by # "none") =>
                    sum[1][t].v = sum[2][t].v
            /\ \A r \in Runs :
                    sum[r][t].by # "none" =>
                        /\ sum[r][t].by = "compute"
                        /\ sum[r][t].v = Fingerprint(t, Inputs(1))

C20_Witness ==
    /\ SameInputs
    /\ environ[1][1][1] # environ[2][1][1]
    /\ \E i \in 1..Len(environ[1]) : environ[1][i] \notin
            {environ[2][j] : j \in 1..Len(environ[2])}
    /\ DirectDeps(Requested) # {}
    /\ sum[1][Requested].by = "compute" /\ sum[2][Requested].by = "compute"
    /\ \A t \in Targets : sum[2][t].by = "compute"

----------------------------------------------------------------------------
(* Properties of the fingerprint of a dependency list, checked under SpecList *)

Computed(r, t) == sum[r][t].by # "none"

\* The checksums of the dependencies of t as run r sees them, left to right.
DepSums(r, ds) == [i \in 1..Len(ds) |-> DepChecksum(sum[r], ds[i], Inputs(r))]

Perms(n) == {p \in [1..n -> 1..n] : \A i, j \in 1..n : p[i] = p[j] => i = j}

\* The dependency list ds with the entries after the first one permuted,
\* and ds with later repetitions of an entry removed.
Rearranged(ds) ==
    { [i \in 1..Len(ds) |-> IF i = 1 THEN ds[1] ELSE ds[1 + p[i - 1]]] :
        p \in Perms(Len(ds) - 1) }
    \cup { LET keep == Ascending(FirstOccurrences(ds))
           IN  [i \in 1..Len(keep) |-> ds[keep[i]]] }

\* C21: the fingerprint of a target is the hash of its dependencies'
\* checksums in list order, repetitions included: two targets have the same
\* fingerprint exactly when their checksum sequences are equal, a reordered
\* or deduplicated list gives the same fingerprint only if the checksum
\* sequence is unchanged, and another fingerprint for an upstream target
\* gives another fingerprint.
C21_OrderedHashTuple ==
    \A r \in Runs : \A t \in Targets :
        Computed(r, t) =>
            /\ sum[r][t].v = Sha(DepSums(r, deps[t]))
            /\ \A u \in Targets :
                  Computed(r, u) =>
                      ((DepSums(r, deps[t]) = DepSums(r, deps[u]))
                          <=> (sum[r][t].v = sum[r][u].v))
            /\ \A ds \in Rearranged(deps[t]) :
                  (DepSums(r, ds) = DepSums(r, deps[t]))
                      <=> (ComputeChecksum(sum[r], ds, Inputs(r)) = sum[r][t].v)
            /\ \A i \in 2..Len(deps[t]) : \A w \in Targets :
                  (Computed(r, w) /\ sum[r][w].v # sum[r][deps[t][i].target].v) =>
                      ComputeChecksum([sum[r] EXCEPT ![deps[t][i].target] = sum[r][w]],
                                      deps[t], Inputs(r)) # sum[r][t].v

\* The requested target lists two upstream targets with different
\* fingerprints, one of which lists its dependency twice.
C21_Witness ==
    /\ \A t \in Targets : Computed(2, t)
    /\ Len(deps[Requested]) = 3
    /\ sum[2][deps[Requested][2].target].v # sum[2][deps[Requested][3].target].v
    /\ \E u \in Targets :
          Len(deps[u]) = 3 /\ deps[u][2] = deps[u][3]

\* SpecMemo: the invocations of Spec on a host whose cache is the local
\* directory; the memo of the fingerprints does not depend on the backend.
InitMemo == Init /\ backend = "local"

SpecMemo == InitMemo /\ [][Next]_vars

\* The memo of this invocation is settled: compute_checksum ran at most
\* once per target, a value was assigned only to the requested target of a
\* load by job, a computed value is the hash of what its dependencies hold
\* now, one more read would change nothing, and every cache path used so
\* far is the path of a value still held.
MemoSettled ==
    /\ \A t \in Targets :
          /\ sum[1][t].n <= 1
          /\ sum[1][t].by = "none" => sum[1][t].n = 0
          /\ sum[1][t].by = "db" =>
                /\ t = Requested /\ mode = "LOAD_ONLY"
                /\ sum[1][t].n = 0
                /\ sum[1][t].v = rec.checksum
          /\ sum[1][t].by = "compute" =>
                /\ sum[1][t].n = 1
                /\ \A u \in DirectDeps(t) : Computed(1, u)
                /\ sum[1][t].v = Sha(DepSums(1, deps[t]))
          /\ Computed(1, t) => ChecksumValue(sum[1], t, Inputs(1)) = sum[1]
    /\ \A k \in keys :
          \E t \in Targets : Computed(1, t) /\ k = CachePath(t, sum[1][t].v)

\* C22: target fingerprints are memoised.  Within one invocation
\* compute_checksum runs at most once per target however often
\* checksum_value is read and however many targets depend on it, a value
\* once set never changes, the only value that is not computed is the one
\* assigned by the load by job, and the dependencies that reference a target
\* hold the value the target holds.
C22_FingerprintMemoised ==
    /\ []MemoSettled
    /\ [][\A t \in Targets : Computed(1, t) => sum'[1][t] = sum[1][t]]_vars

\* An upstream target that two targets depend on was read by both and by
\* its own execution, and was computed once.
C22_Witness ==
    /\ status = "done"
    /\ mode = "NORMAL"
    /\ \E u \in Targets :
          /\ \E a, b \in Targets : a # b /\ u \in DirectDeps(a) /\ u \in DirectDeps(b)
          /\ sum[1][u].n = 1
          /\ \E k \in 1..Len(log) : log[k].t = u /\ log[k].e \in Opens
    /\ \A t \in Targets : Computed(1, t)

----------------------------------------------------------------------------
(* SpecLoad: Spec.from_file on the root quack.yaml: the field validators,  *)
(* the included sub-specs, and post_process.                               *)

\* Depth at which the interpreter ends a recursion with RecursionError.
RecursionLimit == 4
\* Longest dependency list the first target of a document declares.
MaxDecl == 2

\* A Dependency: the kind, the name (of the global dependency or of the
\* target it refers to) and the propagate flag.
Dep(ty, n, p) == [type |-> ty, name |-> n, propagate |-> p]
GlobalRef(n) == Dep("global", n, FALSE)
TargetRef(n) == Dep("target", n, FALSE)
SourceOf(n) == Dep("source", n, FALSE)

\* A Target as declared: outputs.paths holds the declared paths.
TargetDecl(n, ds, inh) ==
    [name |-> n, dependencies |-> ds, paths |-> {n}, inherit |-> inh]
ScriptDecl(n) == [name |-> n]

\* One quack.yaml; app_name is TRUE when the document sets a non-empty one,
\* here when it lies in the directory quack was started in (path.parent is
\* cwd).
Doc(app, h, gs, ts, ss, inc) ==
    [app_name |-> app, here |-> h, global_dependencies |-> gs,
     targets |-> ts, scripts |-> ss, include |-> inc]

Has(v, n) == \E i \in 1..Len(v) : v[i].name = n
IndexOf(v, n) == CHOOSE i \in 1..Len(v) : v[i].name = n /\ \A j \in 1..(i - 1) : v[j].name # n
Lookup(v, n) == v[IndexOf(v, n)]

\* The loops of the validators: a name seen before raises ValueError.
HasDuplicate(v) == \E i, j \in 1..Len(v) : i < j /\ v[i].name = v[j].name

\* validate_scripts keeps the scripts of the quack.yaml in the execution
\* directory only.
ValidateScripts(d) == IF d.here THEN d.scripts ELSE <<>>

\* The Spec instance model_validate builds from a document whose include
\* list was loaded to the instances inc.
SpecOf(d, inc) ==
    [app_name |-> d.app_name, global_dependencies |-> d.global_dependencies,
     targets |-> d.targets, scripts |-> ValidateScripts(d),
     include |-> inc]

\* The three before-validators accept the document.
FieldsValid(d) ==
    /\ ~HasDuplicate(d.global_dependencies)
    /\ ~HasDuplicate(d.targets)
    /\ ~HasDuplicate(ValidateScripts(d))

\* post_process lines 130-135: add_target and add_script of the included
\* specs, one after the other; ok is FALSE when one raised.
RECURSIVE AddAll(_, _, _, _)
AddAll(ts, ss, new, asTarget) ==
    IF new = <<>> THEN [ok |-> TRUE, targets |-> ts, scripts |-> ss]
    ELSE IF Has(ts, Head(new).name) \/ Has(ss, Head(new).name)
         THEN [ok |-> FALSE, targets |-> ts, scripts |-> ss]
         ELSE IF asTarget
              THEN AddAll(Append(ts, Head(new)), ss, Tail(new), asTarget)
              ELSE AddAll(ts, Append(ss, Head(new)), Tail(new), asTarget)

RECURSIVE Merge(_, _, _)
Merge(ts, ss, inc) ==
    IF inc = <<>> THEN [ok |-> TRUE, targets |-> ts, scripts |-> ss]
    ELSE LET a == AddAll(ts, ss, Head(inc).targets, TRUE)
             b == AddAll(a.targets, a.scripts, Head(inc).scripts, FALSE)
         IN  IF ~a.ok THEN a
             ELSE IF ~b.ok THEN b
             ELSE Merge(b.targets, b.scripts, Tail(inc))

\* post_process line 137.
Propagated(gs) == SelectSeq(gs, LAMBDA g : g.propagate)

\* list.index: the first position holding a value equal to d.
FirstIndex(L, d) == CHOOSE i \in 1..Len(L) : L[i] = d /\ \A j \in 1..(i - 1) : L[j] # d

\* A loop that skips the entry after the one it replaced.
RECURSIVE ReplaceGlobalsSkipping(_, _, _)
ReplaceGlobalsSkipping(L, i, gs) ==
    IF i > Len(L) THEN [ok |-> TRUE, deps |-> L]
    ELSE IF L[i].type # "global" THEN ReplaceGlobalsSkipping(L, i + 1, gs)
    ELSE IF ~Has(gs, L[i].name) THEN [ok |-> FALSE, deps |-> L]
    ELSE ReplaceGlobalsSkipping(
            [L EXCEPT ![i] = Lookup(gs, L[i].name)], i + 2, gs)

\* post_process lines 140-144: the loop over the list from position i on;
\* a reference is replaced where list.index finds it, an unknown name
\* raises ValueError.
RECURSIVE ReplaceGlobals(_, _, _)
ReplaceGlobals(L, i, gs) ==
    IF i > Len(L) THEN [ok |-> TRUE, deps |-> L]
    ELSE IF L[i].type # "global" THEN ReplaceGlobals(L, i + 1, gs)
    ELSE IF ~Has(gs, L[i].name) THEN [ok |-> FALSE, deps |-> L]
    ELSE ReplaceGlobals(
            [L EXCEPT ![FirstIndex(L, L[i])] = Lookup(gs, L[i].name)],
            i + 1, gs)

\* post_process lines 138-144 for one target.
ResolveTarget(t, gs) ==
    LET r == ReplaceGlobals(Propagated(gs) \o t.dependencies, 1, gs)
    IN  [ok |-> r.ok, target |-> [t EXCEPT !.dependencies = r.deps]]

\* The paths sets and the @cache of get_outputs while post_process expands
\* the outputs: err names the exception that ended it, if any.
SetPaths(st, n, P) ==
    [st EXCEPT !.targets[IndexOf(st.targets, n)].paths = P]

\* A get_outputs that takes the paths of the dependencies whether or not
\* the target inherits.
RECURSIVE GetOutputsAlways(_, _, _)
RECURSIVE InheritFrom(_, _, _, _)
RECURSIVE GetOutputs(_, _, _)
GetOutputsAlways(st, n, depth) ==
    IF st.err # "" \/ n \in st.cache THEN st
    ELSE IF depth > RecursionLimit THEN [st EXCEPT !.err = "RecursionError"]
    ELSE IF ~Has(st.targets, n) THEN [st EXCEPT !.err = "KeyError"]
    ELSE LET s1 == InheritFrom(st, n, 1, depth)
         IN  IF s1.err # "" THEN s1 ELSE [s1 EXCEPT !.cache = @ \cup {n}]

\* get_outputs lines 155-157 from dependency i on: the set of the target
\* is updated in place with what get_outputs of the dependency returns.
InheritFrom(st, n, i, depth) ==
    LET t == Lookup(st.targets, n)
    IN  IF st.err # "" \/ i > Len(t.dependencies) THEN st
        ELSE IF t.dependencies[i].type # "target"
             THEN InheritFrom(st, n, i + 1, depth)
             ELSE LET d == t.dependencies[i].name
                      s1 == GetOutputs(st, d, depth + 1)
                  IN  IF s1.err # "" THEN s1
                      ELSE InheritFrom(
                              SetPaths(s1, n, Lookup(s1.targets, n).paths
                                                \cup Lookup(s1.targets, d).paths),
                              n, i + 1, depth)

\* get_outputs lines 149-158, under functools.cache: a call nested deeper
\* than the interpreter allows raises RecursionError, a name that is no
\* target raises KeyError.
GetOutputs(st, n, depth) ==
    IF st.err # "" \/ n \in st.cache THEN st
    ELSE IF depth > RecursionLimit THEN [st EXCEPT !.err = "RecursionError"]
    ELSE IF ~Has(st.targets, n) THEN [st EXCEPT !.err = "KeyError"]
    ELSE LET s1 == IF Lookup(st.targets, n).inherit
                   THEN InheritFrom(st, n, 1, depth)
                   ELSE st
         IN  IF s1.err # "" THEN s1 ELSE [s1 EXCEPT !.cache = @ \cup {n}]

\* post_process lines 160-162: the targets in dictionary order.
RECURSIVE ExpandOutputs(_, _)
ExpandOutputs(st, i) ==
    IF st.err # "" \/ i > Len(st.targets) THEN st
    ELSE ExpandOutputs(IF st.targets[i].inherit
                       THEN GetOutputs(st, st.targets[i].name, 1)
                       ELSE st,
                       i + 1)

\* Spec.post_process of the instance S: the instance it leaves and the
\* exception it raised ("" when it returned).
PostProcess(S) ==
    LET m == Merge(S.targets, S.scripts, S.include)
        r == [i \in 1..Len(m.targets) |->
                 ResolveTarget(m.targets[i], S.global_dependencies)]
        e == ExpandOutputs(
                [targets |-> [i \in 1..Len(m.targets) |-> r[i].target],
                 cache |-> {}, err |-> ""], 1)
    IN  IF ~m.ok THEN [spec |-> S, err |-> "ValueError"]
        ELSE IF \E i \in 1..Len(m.targets) : ~r[i].ok
             THEN [spec |-> S, err |-> "ValueError"]
        ELSE IF e.err # "" THEN [spec |-> S, err |-> e.err]
        ELSE [spec |-> [S EXCEPT !.targets = e.targets, !.scripts = m.scripts],
              err |-> ""]

\* Spec.from_file of an included document: what the include validator gets
\* back, or the error that ended the invocation.
FromFile(d) ==
    IF ~FieldsValid(d) THEN [spec |-> <<>>, err |-> "ValidationError"]
    ELSE IF d.app_name THEN PostProcess(SpecOf(d, <<>>))
    ELSE [spec |-> SpecOf(d, <<>>), err |-> ""]

LoaderFrame ==
    UNCHANGED <<deps, backend, mode, commitIdx, store, store0, now, serial,
                stack, status, log, op, runs, tree, environ, cmdout, rec,
                sum, keys, isCI, yaml, matchVars, poolVars, diskVars>>

\* model_validate of the root document up to the include validator: the
\* validators of global_dependencies, targets and scripts.
ValidateFields ==
    /\ LoaderFrame
    /\ root.pc = "start"
    /\ root' = IF FieldsValid(yaml)
               THEN [root EXCEPT !.pc = "include",
                                 !.spec = SpecOf(yaml, <<>>)]
               ELSE [root EXCEPT !.pc = "error", !.err = "ValidationError"]

\* validate_include: the next included document is loaded by from_file.
ValidateInclude ==
    /\ LoaderFrame
    /\ root.pc = "include"
    /\ LET k == Len(root.spec.include) + 1
       IN  IF k > Len(yaml.include)
           THEN root' = [root EXCEPT !.pc = "post_process"]
           ELSE LET f == FromFile(yaml.include[k])
                IN  root' = IF f.err # ""
                            THEN [root EXCEPT !.pc = "error", !.err = f.err]
                            ELSE [root EXCEPT !.spec.include = Append(@, f.spec)]

\* from_file lines 112-113: the root has an app_name and is post-processed.
PostProcessRoot ==
    /\ LoaderFrame
    /\ root.pc = "post_process"
    /\ LET r == PostProcess(root.spec)
       IN  root' = IF r.err # ""
                   THEN [root EXCEPT !.pc = "error", !.err = r.err]
                   ELSE [root EXCEPT !.pc = "done", !.spec = r.spec]

\* The calls of checksum_value that reading the one of target n makes, on
\* the loaded targets ts: memo holds the targets whose value is set, a call
\* nested deeper than the interpreter allows raises RecursionError.
RECURSIVE ChecksumWalk(_, _, _, _)
RECURSIVE ChecksumWalkDeps(_, _, _, _, _)
ChecksumWalk(ts, st, n, depth) ==
    IF st.err # "" \/ n \in st.memo THEN st
    ELSE IF depth > RecursionLimit THEN [st EXCEPT !.err = "RecursionError"]
    ELSE IF ~Has(ts, n) THEN [st EXCEPT !.err = "KeyError"]
    ELSE LET s1 == ChecksumWalkDeps(ts, st, n, 1, depth)
         IN  IF s1.err # "" THEN s1 ELSE [s1 EXCEPT !.memo = @ \cup {n}]

ChecksumWalkDeps(ts, st, n, i, depth) ==
    LET ds == Lookup(ts, n).dependencies
    IN  IF st.err # "" \/ i > Len(ds) THEN st
        ELSE ChecksumWalkDeps(ts,
                 IF ds[i].type = "target"
                 THEN ChecksumWalk(ts, st, ds[i].name, depth + 1)
                 ELSE st,
                 n, i + 1, depth)

\* The loaded spec is used: the fingerprint of one of its targets is read.
ReadFingerprint ==
    /\ LoaderFrame
    /\ root.pc = "done"
    /\ \E i \in 1..Len(root.spec.targets) :
          LET w == ChecksumWalk(root.spec.targets, [memo |-> {}, err |-> ""],
                                root.spec.targets[i].name, 1)
          IN  root' = IF w.err # ""
                      THEN [root EXCEPT !.pc = "error", !.err = w.err]
                      ELSE [root EXCEPT !.pc = "fingerprinted"]

\* The engine of the other specifications is not running while the spec is
\* loaded.
EngineOff ==
    /\ deps = [t \in Targets |-> <<SourceDep>>]
    /\ backend = "raw"
    /\ mode = "NORMAL"
    /\ commitIdx = FALSE
    /\ store = StoreOf({}, {})
    /\ store0 = store
    /\ now = 0
    /\ serial = 0
    /\ stack = <<>>
    /\ status = "idle"
    /\ log = <<>>
    /\ EngineIdle
    /\ PlainInputs
    /\ rec = NoRecord
    /\ sum = [r \in Runs |-> NoSums]
    /\ keys = {}
    /\ isCI = FALSE

\* The global dependencies a document declares: a source and a command
\* dependency, each propagating or not, in either order.
G1(p) == Dep("source", "g1", p)
G2(p) == Dep("command", "g2", p)
GlobalLists ==
    { <<>>, <<G1(TRUE)>>, <<G1(FALSE)>>, <<G1(TRUE), G2(TRUE)>>,
      <<G2(TRUE), G1(TRUE)>>, <<G1(FALSE), G2(TRUE)>> }

\* The dependency lists of at most n entries over the references R.
DeclLists(R, n) == UNION { [1..k -> R] : k \in 0..n }

\* What the first target declares: references to the global dependencies
\* g1 and g2 and to a g3 nobody declares, and a source dependency of its own.
DeclRefs == {GlobalRef("g1"), GlobalRef("g2"), GlobalRef("g3"), SourceOf("s")}

\* An included document with one target c: without an app_name, or with an
\* app_name and a propagating global dependency g1 of its own.
SubDocs ==
    { Doc(app, FALSE, IF app THEN <<Dep("command", "g1", TRUE)>> ELSE <<>>,
          <<TargetDecl("c", cd, ci)>>, <<>>, <<>>) :
        app \in BOOLEAN, ci \in BOOLEAN,
        cd \in {<<TargetRef("b")>>, <<GlobalRef("g1"), TargetRef("b")>>} }

\* A document with distinct names whose targets a, b (root) and c
\* (included) vary in what they depend on and in whether they inherit
\* outputs; a may depend on b and b on a.
DepDoc(gs, base, tail, bd, ia, ib, inc) ==
    Doc(TRUE, TRUE, gs,
        <<TargetDecl("a", base \o tail, ia), TargetDecl("b", bd, ib)>>,
        <<ScriptDecl("s")>>, inc)

Plain(n) == TargetDecl(n, <<>>, FALSE)

\* The include lists of the documents whose names repeat, when the root
\* lies in the execution directory (h) or the included document does.
NameIncludes(h) ==
    {<<>>, <<Doc(FALSE, FALSE, <<>>, <<Plain("c")>>, <<>>, <<>>),
             Doc(FALSE, FALSE, <<>>, <<Plain("c")>>, <<>>, <<>>)>>}
    \cup { <<Doc(app, ~h, <<>>, sts, sss, <<>>)>> :
             app \in BOOLEAN,
             sts \in {<<Plain("c")>>, <<Plain("a")>>, <<Plain("s")>>,
                      <<Plain("c"), Plain("c")>>},
             sss \in {<<>>, <<ScriptDecl("s")>>, <<ScriptDecl("c")>>,
                      <<ScriptDecl("s"), ScriptDecl("s")>>} }

\* The root document is one that varies the dependencies, or one whose
\* dependency lists are empty and whose names repeat or not, within a
\* document and across the root and what it includes.
InitLoad ==
    /\ EngineOff
    /\ MatchIdle
    /\ PoolIdle
    /\ DiskIdle
    /\ \/ \E gs \in GlobalLists, base \in DeclLists(DeclRefs, MaxDecl),
             tail \in {<<>>, <<TargetRef("b")>>},
             bd \in {<<>>, <<TargetRef("a")>>, <<GlobalRef("g1"), TargetRef("a")>>},
             ia \in BOOLEAN, ib \in BOOLEAN,
             inc \in {<<>>} \cup {<<d>> : d \in SubDocs} :
               yaml = DepDoc(gs, base, tail, bd, ia, ib, inc)
       \/ \E h \in BOOLEAN :
          \E gs \in DeclLists({G1(FALSE), G2(FALSE)}, 2),
             ts \in DeclLists({Plain("a"), Plain("b")}, 2) \ {<<>>},
             ss \in DeclLists({ScriptDecl("a"), ScriptDecl("s")}, 2),
             inc \in NameIncludes(h) :
               yaml = Doc(TRUE, h, gs, ts, ss, inc)
    /\ root = [pc |-> "start", spec |-> <<>>, err |-> ""]

NextLoad ==
    \/ ValidateFields
    \/ ValidateInclude
    \/ PostProcessRoot
    \/ ReadFingerprint

SpecLoad == InitLoad /\ [][NextLoad]_vars

----------------------------------------------------------------------------
(* Properties of the spec loader, checked under SpecLoad *)

Loaded == root.spec.targets
\* The document that declared the loaded target of this name.
Declared(n) ==
    IF Has(yaml.targets, n) THEN Lookup(yaml.targets, n)
    ELSE LET k == CHOOSE k \in 1..Len(yaml.include) : Has(yaml.include[k].targets, n)
         IN  Lookup(yaml.include[k].targets, n)
TargetKind(t) ==
    { t.dependencies[i].name :
        i \in { j \in 1..Len(t.dependencies) : t.dependencies[j].type = "target" } }

\* C23: after post-processing, the outputs.paths of a target that inherits
\* are its declared paths together with the post-processed outputs.paths of
\* every target-kind dependency, and the outputs.paths of a target that
\* does not inherit are its declared paths, whoever depends on it.
C23_OutputsInherited ==
    root.pc = "done" =>
        \A i \in 1..Len(Loaded) :
            LET t == Loaded[i]
            IN  /\ t.inherit = Declared(t.name).inherit
                /\ t.inherit =>
                      /\ \A n \in TargetKind(t) : Has(Loaded, n)
                      /\ t.paths = Declared(t.name).paths \cup
                            UNION { Lookup(Loaded, n).paths : n \in TargetKind(t) }
                /\ ~t.inherit => t.paths = Declared(t.name).paths

\* The included target c inherits from b, which inherits from a: c holds
\* the paths of the three.
C23_Witness ==
    /\ root.pc = "done"
    /\ Has(Loaded, "c")
    /\ Lookup(Loaded, "c").inherit /\ "b" \in TargetKind(Lookup(Loaded, "c"))
    /\ Lookup(Loaded, "b").inherit /\ "a" \in TargetKind(Lookup(Loaded, "b"))
    /\ Lookup(Loaded, "c").paths = {"a", "b", "c"}

\* The declared dependency list ds with every global reference replaced in
\* place by the global dependency of that name among gs.
InPlace(ds, gs) ==
    [i \in 1..Len(ds) |->
        IF ds[i].type = "global" /\ Has(gs, ds[i].name)
        THEN Lookup(gs, ds[i].name) ELSE ds[i]]

\* C24: after post-processing, the dependency list of every target, the
\* targets merged from included sub-specs too, is the propagating global
\* dependencies in declaration order followed by the declared dependencies
\* in declared order, each global reference replaced in place.
C24_PropagatedThenDeclared ==
    root.pc = "done" =>
        \A i \in 1..Len(Loaded) :
            Loaded[i].dependencies =
                Propagated(yaml.global_dependencies)
                    \o InPlace(Declared(Loaded[i].name).dependencies,
                               yaml.global_dependencies)

\* The documents in load order, the root first.
Documents == <<yaml>> \o yaml.include
\* The global dependencies the references of document k are resolved by:
\* its own when it is post-processed on its own, the root's otherwise.
ResolvedBy(k) ==
    IF Documents[k].app_name THEN Documents[k].global_dependencies
    ELSE yaml.global_dependencies

Names(v) == {v[i].name : i \in 1..Len(v)}

\* C26: in a root spec that was loaded and post-processed, no two targets,
\* no two scripts and no two global dependencies share a name, and no name
\* is both a target and a script.
C26_NamesUnique ==
    root.pc = "done" =>
        /\ ~HasDuplicate(root.spec.targets)
        /\ ~HasDuplicate(root.spec.scripts)
        /\ ~HasDuplicate(root.spec.global_dependencies)
        /\ Names(root.spec.targets) \cap Names(root.spec.scripts) = {}

\* The targets of all documents and the names each depends on as declared.
AllDeclared == UNION { {d.targets[i] : i \in 1..Len(d.targets)} :
                         d \in {Documents[k] : k \in 1..Len(Documents)} }
RECURSIVE ReachableIn(_, _)
ReachableIn(S, k) ==
    IF k = 0 THEN S
    ELSE ReachableIn(S \cup UNION { TargetKind(t) : t \in {u \in AllDeclared : u.name \in S} },
                     k - 1)
Cyclic ==
    \E t \in AllDeclared : t.name \in ReachableIn(TargetKind(t), Cardinality(AllDeclared))

\* C28: a spec whose target-kind dependencies form a cycle is rejected with
\* a spec error: its load never completes, no fingerprint of it is
\* computed, and whatever ends the invocation is a reported spec error and
\* not a recursion that ran into the interpreter's limit.
C28_CycleRejected ==
    Cyclic =>
        /\ root.pc \notin {"done", "fingerprinted"}
        /\ root.err # "RecursionError"

----------------------------------------------------------------------------
(* SpecMatch: one call of DependencyTypeSource.get_matched_files.  A regex *)
(* is given by its text and by the set of file names it matches.           *)

\* Two regexes of different text for every set of file names.
Regex(k, M) == [pattern |-> <<k, M>>, matches |-> M]
Patterns == {Regex(k, M) : k \in {1, 2}, M \in SUBSET Files}

\* The first pattern of ps that matches f (re.match, then break), 0 if none.
FirstMatch(ps, f) ==
    IF \E i \in 1..Len(ps) : f \in ps[i].matches
    THEN CHOOSE i \in 1..Len(ps) :
            f \in ps[i].matches /\ \A j \in 1..(i - 1) : f \notin ps[j].matches
    ELSE 0

Count(counts, ps, i) ==
    IF i = 0 THEN counts
    ELSE [counts EXCEPT ![ps[i].pattern] = @ + 1]

\* get_matched_files lines 59-75 for the listed files from position i on:
\* matched_files and matched_counts after the loop.
RECURSIVE MatchLoop(_, _, _)
MatchLoop(c, st, i) ==
    IF i > Len(c.listed) THEN st
    ELSE LET f == c.listed[i]
             ih == FirstMatch(c.paths, f)
             eh == FirstMatch(c.excludes, f)
         IN  IF f \notin c.exists THEN MatchLoop(c, st, i + 1)
             ELSE MatchLoop(c,
                     [files |-> IF ih # 0 /\ eh = 0 THEN st.files \cup {f}
                                ELSE st.files,
                      counts |-> Count(Count(st.counts, c.paths, ih),
                                       c.excludes, eh)],
                     i + 1)

\* get_matched_files for the call c: SpecError when a pattern has count 0,
\* the matched files in sorted order otherwise.
GetMatchedFilesFor(c) ==
    LET all == c.paths \o c.excludes
        st == MatchLoop(c, [files |-> {},
                            counts |-> [p \in {all[i].pattern : i \in 1..Len(all)} |-> 0]],
                        1)
    IN  IF \E i \in 1..Len(all) : st.counts[all[i].pattern] = 0
        THEN [err |-> TRUE, files |-> <<>>]
        ELSE [err |-> FALSE, files |-> Ascending(st.files)]

MatchFrame ==
    UNCHANGED <<deps, backend, mode, commitIdx, store, store0, now, serial,
                stack, status, log, op, runs, tree, environ, cmdout, rec,
                sum, keys, isCI, loaderVars, poolVars, diskVars, call>>

GetMatched ==
    /\ MatchFrame
    /\ result = <<>>
    /\ result' = GetMatchedFilesFor(call)

\* git ls-files lists every file of the work tree (with -co outside CI) or
\* all but the last one, which is not tracked; any of them may be gone.
InitMatch ==
    /\ EngineOff
    /\ LoaderIdle
    /\ PoolIdle
    /\ DiskIdle
    /\ \E l \in {Ascending(Files), Ascending(Files \ {NumFiles})},
          x \in SUBSET Files,
          ps \in DeclLists(Patterns, 2) \ {<<>>},
          es \in DeclLists(Patterns, 1) :
            call = [listed |-> l, exists |-> x, paths |-> ps, excludes |-> es]
    /\ result = <<>>

NextMatch == GetMatched

SpecMatch == InitMatch /\ [][NextMatch]_vars

\* The listed files that exist, and the patterns of the call.
ExistingListed == {call.listed[i] : i \in 1..Len(call.listed)} \cap call.exists
CallPatterns ==
    {call.paths[i] : i \in 1..Len(call.paths)}
        \cup {call.excludes[i] : i \in 1..Len(call.excludes)}
Included(f) == \E i \in 1..Len(call.paths) : f \in call.paths[i].matches
Excluded(f) == \E i \in 1..Len(call.excludes) : f \in call.excludes[i].matches

\* C27: get_matched_files raises a spec error exactly when some regex of
\* paths or excludes matches none of the existing listed files, and
\* otherwise returns, sorted, the existing listed files that match an
\* include regex and no exclude regex.
C27_MatchedFiles ==
    result # <<>> =>
        /\ result.err <=> \E p \in CallPatterns : p.matches \cap ExistingListed = {}
        /\ ~result.err =>
              result.files = Ascending({f \in ExistingListed : Included(f) /\ ~Excluded(f)})

----------------------------------------------------------------------------
(* SpecPar: execute_scripts_parallel.  The main thread submits the scripts *)
(* to a thread pool and consumes the futures as they complete; each worker *)
(* runs Command.execute of one script.  The steps are the points at which  *)
(* the threads touch the registry, the _process attribute or a subprocess. *)

NumScripts == 3
PoolSize == 2

ScriptIds == 1..NumScripts

\* A command before it is submitted.  pc is the position of its execute,
\* process whether _process is set, proc/sig/code the subprocess, dropped
\* whether terminate_all took the command off the registry, term the
\* number of terminate calls made on it.
NewCommand ==
    [pc |-> "new", process |-> FALSE, proc |-> "none", sig |-> FALSE,
     code |-> 0, out |-> "", dropped |-> FALSE, term |-> 0]

\* CommandManager.register and unregister.
RegisterNothing(a, c) == a
Register(a, c) == Append(a, c)
Remove(a, c) == SelectSeq(a, LAMBDA x : x # c)

InRegistry(c) == \E i \in 1..Len(active) : active[i] = c

\* unregister, first half: `if command in self._active_commands`.  The
\* caller goes on to the remove, or is done.
Unregister(c, remove, done) == IF InRegistry(c) THEN remove ELSE done

\* The worker threads that are running a script.
Working ==
    {s \in ScriptIds : cmd[s].pc \in {"registered", "waiting", "finally", "remove"}}

ParFrame ==
    UNCHANGED <<deps, backend, mode, commitIdx, store, store0, now, serial,
                stack, status, log, op, runs, tree, environ, cmdout, rec,
                sum, keys, isCI, loaderVars, matchVars, diskVars>>

\* executor.submit(script.execute), in the order of the names.
Submit ==
    /\ ParFrame
    /\ main.pc = "submit"
    /\ cmd' = [cmd EXCEPT ![main.next].pc = "queued"]
    /\ main' = [main EXCEPT !.next = @ + 1,
                            !.pc = IF main.next = NumScripts THEN "wait" ELSE "submit"]
    /\ UNCHANGED active

\* A free worker takes the oldest queued script; execute registers it.
StartExecute(s) ==
    /\ ParFrame
    /\ cmd[s].pc = "queued"
    /\ \A r \in 1..(s - 1) : cmd[r].pc # "queued"
    /\ Cardinality(Working) < PoolSize
    /\ active' = Register(active, s)
    /\ cmd' = [cmd EXCEPT ![s].pc = "registered"]
    /\ UNCHANGED main

\* self._process = subprocess.Popen(...): the subprocess runs and
\* _process is set, or Popen raises.
Popen(s) ==
    /\ ParFrame
    /\ cmd[s].pc = "registered"
    /\ \/ cmd' = [cmd EXCEPT ![s].pc = "waiting", ![s].proc = "running",
                             ![s].process = TRUE]
       \/ cmd' = [cmd EXCEPT ![s].pc = "finally", ![s].out = "raised"]
    /\ UNCHANGED <<active, main>>

\* The subprocess ends: with any status by itself, non-zero after SIGTERM.
ProcessExits(s) ==
    /\ ParFrame
    /\ cmd[s].proc = "running"
    /\ \E c \in {0, 1} :
          /\ cmd[s].sig => c = 1
          /\ cmd' = [cmd EXCEPT ![s].proc = "exited", ![s].code = c]
    /\ UNCHANGED <<active, main>>

\* self._process.wait() returns; a non-zero status raises.
Wait(s) ==
    /\ ParFrame
    /\ cmd[s].pc = "waiting"
    /\ cmd[s].proc = "exited"
    /\ cmd' = [cmd EXCEPT ![s].pc = "finally",
                          ![s].out = IF cmd[s].code = 0 THEN "returned" ELSE "raised"]
    /\ UNCHANGED <<active, main>>

\* finally: unregister.  A command that is not in the registry is left
\* alone and the future completes.
Finally(s) ==
    /\ ParFrame
    /\ cmd[s].pc = "finally"
    /\ cmd' = [cmd EXCEPT ![s].pc = Unregister(s, "remove", cmd[s].out)]
    /\ UNCHANGED <<active, main>>

\* unregister, second half: self._active_commands.remove(command), which
\* raises ValueError when the command has gone meanwhile; the future
\* completes.
RemoveOwn(s) ==
    /\ ParFrame
    /\ cmd[s].pc = "remove"
    /\ active' = Remove(active, s)
    /\ cmd' = [cmd EXCEPT ![s].pc = IF InRegistry(s) THEN cmd[s].out ELSE "raised",
                          ![s].out = IF InRegistry(s) THEN @ ELSE "ValueError"]
    /\ UNCHANGED main

\* as_completed yields a finished future: success is logged, and after the
\* last one the with block ends; a failure enters terminate_all, which
\* iterates over a copy of the registry.
AsCompleted(s) ==
    /\ ParFrame
    /\ main.pc = "wait"
    /\ s \notin main.seen
    /\ cmd[s].pc \in {"returned", "raised"}
    /\ main' = IF cmd[s].pc = "raised"
               THEN [main EXCEPT !.pc = "terminate", !.seen = @ \cup {s},
                                 !.snap = active, !.i = 1]
               ELSE [main EXCEPT !.seen = @ \cup {s},
                                 !.pc = IF main.seen \cup {s} = ScriptIds
                                        THEN "exited" ELSE "wait"]
    /\ UNCHANGED <<active, cmd>>

\* cmd.terminate(): when _process is set, SIGTERM to the process group; a
\* process that is gone is passed over, any other error of getpgid or
\* killpg is raised, and terminate_all logs it.  Either way the finally
\* of terminate_all comes next.
Terminate ==
    /\ ParFrame
    /\ main.pc = "terminate"
    /\ main.i <= Len(main.snap)
    /\ LET c == main.snap[main.i]
       IN  \/ /\ cmd' = [cmd EXCEPT ![c].term = @ + 1,
                                     ![c].sig = @ \/ (cmd[c].process /\ cmd[c].proc = "running")]
           \/ /\ cmd[c].process
              /\ cmd' = [cmd EXCEPT ![c].term = @ + 1]
    /\ main' = [main EXCEPT !.pc = "unregister"]
    /\ UNCHANGED active

\* finally: self.unregister(cmd), first half; then the next command of the
\* copy.
UnregisterVisited ==
    /\ ParFrame
    /\ main.pc = "unregister"
    /\ main' = [main EXCEPT !.pc = Unregister(main.snap[main.i], "remove", "terminate"),
                            !.i = IF InRegistry(main.snap[main.i]) THEN @ ELSE @ + 1]
    /\ UNCHANGED <<active, cmd>>

\* finally: self.unregister(cmd), second half.  The ValueError of a command
\* that has gone meanwhile leaves terminate_all and the with block.
RemoveVisited ==
    /\ ParFrame
    /\ main.pc = "remove"
    /\ LET c == main.snap[main.i]
       IN  /\ active' = Remove(active, c)
           /\ cmd' = [cmd EXCEPT ![c].dropped = @ \/ InRegistry(c)]
           /\ main' = IF InRegistry(c)
                      THEN [main EXCEPT !.pc = "terminate", !.i = @ + 1]
                      ELSE [main EXCEPT !.pc = "shutdown", !.code = 1,
                                        !.err = "ValueError"]

\* terminate_all has returned: sys.exit(1) inside the with block.
SysExit ==
    /\ ParFrame
    /\ main.pc = "terminate"
    /\ main.i > Len(main.snap)
    /\ main' = [main EXCEPT !.pc = "shutdown", !.code = 1]
    /\ UNCHANGED <<active, cmd>>

\* ThreadPoolExecutor.__exit__: shutdown(wait=True) returns when every
\* submitted script, the queued ones included, has been run by a worker.
Shutdown ==
    /\ ParFrame
    /\ main.pc = "shutdown"
    /\ \A s \in ScriptIds : cmd[s].pc \in {"returned", "raised"}
    /\ main' = [main EXCEPT !.pc = "exited"]
    /\ UNCHANGED <<active, cmd>>

InitPar ==
    /\ EngineOff
    /\ LoaderIdle
    /\ MatchIdle
    /\ DiskIdle
    /\ active = <<>>
    /\ cmd = [s \in ScriptIds |-> NewCommand]
    /\ main = [pc |-> "submit", next |-> 1, seen |-> {}, snap |-> <<>>, i |-> 0,
               code |-> 0, err |-> ""]

NextPar ==
    \/ Submit
    \/ \E s \in ScriptIds :
          \/ StartExecute(s)
          \/ Popen(s)
          \/ ProcessExits(s)
          \/ Wait(s)
          \/ Finally(s)
          \/ RemoveOwn(s)
          \/ AsCompleted(s)
    \/ Terminate
    \/ UnregisterVisited
    \/ RemoveVisited
    \/ SysExit
    \/ Shutdown

SpecPar == InitPar /\ [][NextPar]_vars

\* terminate_all has returned and sys.exit(1) was called.
Handled == main.pc \in {"shutdown", "exited"} /\ main.code = 1

\* C29: once the failure of a script has been handled, every subprocess
\* still running has received SIGTERM and no script is still to be started;
\* the invocation ends with status 1 after a failure, with 0 only when every
\* script succeeded.
C29_FailureTerminatesAll ==
    /\ Handled =>
          \A s \in ScriptIds :
             /\ cmd[s].proc = "running" => cmd[s].sig
             /\ cmd[s].pc \notin {"queued", "registered"}
    /\ (main.pc = "exited" /\ main.code = 0) =>
          \A s \in ScriptIds : cmd[s].pc = "returned"

\* C30 as stated: a command is in the registry whenever its subprocess is
\* running, and is not in it once execute has returned or raised.
C30_RegisteredWhileRunning ==
    \A s \in ScriptIds :
       /\ cmd[s].proc = "running" => InRegistry(s)
       /\ cmd[s].pc \in {"returned", "raised"} => ~InRegistry(s)

\* C30, amended: a command whose subprocess is running is in the registry
\* unless terminate_all has taken it off, it is registered before the
\* spawn, and it is not in the registry once execute has returned or raised.
C30_RegisteredUntilTerminated ==
    \A s \in ScriptIds :
       /\ (cmd[s].proc = "running" /\ ~cmd[s].dropped) => InRegistry(s)
       /\ cmd[s].pc = "waiting" => (InRegistry(s) \/ cmd[s].dropped)
       /\ cmd[s].pc \in {"returned", "raised"} => ~InRegistry(s)

\* One script has returned, one has raised, and a third, not touched by
\* terminate_all, is registered with its subprocess running.
C30_Witness ==
    \E s, t, u \in ScriptIds :
       /\ cmd[s].pc = "returned"
       /\ cmd[t].pc = "raised"
       /\ cmd[u].proc = "running" /\ ~cmd[u].dropped /\ InRegistry(u)

\* terminate_all is over: it has returned or an exception has left it.
TerminateAllOver == main.pc \in {"shutdown", "exited"} /\ main.code = 1

\* The commands that were in the registry when terminate_all started.
Snapshot == {main.snap[i] : i \in 1..Len(main.snap)}

\* C31: terminate_all calls terminate exactly once on every command that
\* was in the registry when it started and on no other, goes on after a
\* terminate call that raised, and when it is over none of those commands
\* is in the registry; an unregister of a command that is not registered
\* changes nothing and raises nothing.
C31_TerminateAll ==
    /\ \A s \in ScriptIds :
          /\ cmd[s].term <= 1
          /\ cmd[s].term = 1 => s \in Snapshot
          /\ cmd[s].out # "ValueError"
    /\ main.err # "ValueError"
    /\ main.pc \in {"terminate", "unregister", "remove"} =>
          \A j \in 1..(main.i - 1) :
             cmd[main.snap[j]].term = 1 /\ ~InRegistry(main.snap[j])
    /\ TerminateAllOver =>
          \A s \in Snapshot : cmd[s].term = 1 /\ ~InRegistry(s)

\* C32: the registry operations are atomic: no unregister raises, whatever
\* it races with; a command that execute has registered stays registered
\* until its own unregister or terminate_all takes it off; and once every
\* execute is over the registry is empty.
C32_RegistryAtomic ==
    /\ main.err # "ValueError"
    /\ \A s \in ScriptIds :
          /\ cmd[s].out # "ValueError"
          /\ (cmd[s].pc \in {"registered", "waiting", "finally"}
                 /\ ~cmd[s].dropped) => InRegistry(s)
    /\ (\A s \in ScriptIds : cmd[s].pc \in {"returned", "raised"}) => active = <<>>

----------------------------------------------------------------------------
(* SpecSweep: clear_expired of the Cloud and Dev backends next to one      *)
(* invocation that loads or saves cache entries.  The clock counts days.   *)

OSS_CACHE_EXPIRE_DAYS == 15
Dev_CACHE_EXPIRE_DAYS == 3
\* The last day of the clock.
MaxDay == 17

\* CACHE_EXPIRE_DAYS of the backend class whose prefix is px.
CacheExpireDays(px) ==
    IF px = "oss" THEN OSS_CACHE_EXPIRE_DAYS ELSE Dev_CACHE_EXPIRE_DAYS

\* oss_client.filter_files(base, include=[CACHE_METADATA_FILENAME]): the
\* metadata objects under the prefix with their modified_time, in key order.
FilterFiles(st, px) ==
    LET T == {t \in Targets : Present(st[px][t].meta)}
        order == Ascending(T)
    IN  [i \in 1..Len(order) |->
            [t |-> order[i], modified_time |-> st[px][order[i]].meta.mtime]]

ExpiredOnTheDay(m, px, n) == n - m.modified_time >= CacheExpireDays(px)
\* clear_expired line 226, on the listed modified_time.
Expired(m, px, n) == n - m.modified_time > CacheExpireDays(px)

\* oss_client.remove(cache_dir, recursive=True): every object under the
\* entry's directory; the commit index lives under _commits and stays.
RemoveDir(st, px, t) ==
    [st EXCEPT ![px][t].arch = NoFile, ![px][t].meta = NoFile]

SweepFrame ==
    UNCHANGED <<deps, backend, mode, commitIdx, store0, serial, stack, status,
                log, op, runs, tree, environ, cmdout, rec, sum, keys, isCI,
                loaderVars, matchVars, poolVars, cachedir, dest>>

\* clear_expired starts: the listing.
SweepList ==
    /\ SweepFrame
    /\ sweep.pc = "idle"
    /\ \E px \in {"oss", "dev"} :
          sweep' = [pc |-> "scan", px |-> px, files |-> FilterFiles(store, px), i |-> 1]
    /\ UNCHANGED <<store, now>>

\* One iteration of the loop over the listing.
SweepEntry ==
    /\ SweepFrame
    /\ sweep.pc = "scan"
    /\ sweep.i <= Len(sweep.files)
    /\ LET m == sweep.files[sweep.i]
       IN  store' = IF Expired(m, sweep.px, now)
                    THEN RemoveDir(store, sweep.px, m.t)
                    ELSE store
    /\ sweep' = [sweep EXCEPT !.i = @ + 1]
    /\ UNCHANGED now

\* clear_expired returns.
SweepReturn ==
    /\ SweepFrame
    /\ sweep.pc = "scan"
    /\ sweep.i > Len(sweep.files)
    /\ sweep' = [pc |-> "idle", px |-> sweep.px, files |-> <<>>, i |-> 0]
    /\ UNCHANGED <<store, now>>

\* A day passes, or a whole expiry period, while no cache call and no
\* clear_expired is under way (they take less than a day).
Tick ==
    /\ SweepFrame
    /\ sweep.pc = "idle"
    /\ ~Busy(1)
    /\ \E d \in {1, Dev_CACHE_EXPIRE_DAYS, OSS_CACHE_EXPIRE_DAYS} :
          /\ now + d <= MaxDay
          /\ now' = now + d
    /\ UNCHANGED <<store, sweep>>

\* An invocation with the Cloud or the Dev backend reaches its cache call
\* for the probe target: a load on a hit, the save after the build on a miss.
InvokeCloud ==
    /\ CacheFrame
    /\ ~Busy(1)
    /\ runs = 0
    /\ runs' = 1
    /\ UNCHANGED <<store, now, serial>>
    /\ \E b \in {"oss", "dev"} : \E t \in ProbeTargets :
          op' = [op EXCEPT ![1] =
                    StartOp(IF Exists(b, Shared(store, now, serial), t)
                            THEN "load" ELSE "save", b, t, FALSE)]

\* Entries of earlier invocations, written on day 0: of the probe target in
\* any of the tiers, of the last target in both cloud tiers.
InitSweep ==
    /\ deps = [t \in Targets |-> <<SourceDep>>]
    /\ backend = "raw"
    /\ mode = "NORMAL"
    /\ commitIdx = FALSE
    /\ \E H \in SUBSET Tiers :
          store = [tier \in Tiers |-> [t \in Targets |->
                      IF (t \in ProbeTargets /\ tier \in H)
                            \/ (t = NumTargets /\ tier # "local")
                      THEN OldEntry ELSE NoEntry]]
    /\ store0 = store
    /\ now = 0
    /\ serial = 0
    /\ PlainInputs
    /\ rec = NoRecord
    /\ isCI = FALSE
    /\ sum = [r \in Runs |-> NoSums]
    /\ keys = {}
    /\ stack = <<>>
    /\ status = "idle"
    /\ log = <<>>
    /\ EngineIdle
    /\ LoaderIdle
    /\ MatchIdle
    /\ PoolIdle
    /\ sweep = [pc |-> "idle", px |-> "oss", files |-> <<>>, i |-> 0]
    /\ cachedir = <<>>
    /\ dest = <<>>

NextSweep ==
    \/ SweepList
    \/ SweepEntry
    \/ SweepReturn
    \/ Tick
    \/ InvokeCloud
    \/ CacheStep(1)

SpecSweep == InitSweep /\ [][NextSweep]_vars

\* The step is one of clear_expired and takes the entry of t off prefix px.
Swept(px, t) ==
    /\ sweep' # sweep
    /\ store'[px][t] # store[px][t]

\* C33: clear_expired removes the directory of an entry only when the
\* modified_time of its metadata object is more than CACHE_EXPIRE_DAYS of
\* the backend old, removes every entry it lists as that old, and changes
\* nothing else: an entry whose metadata was uploaded or touched within the
\* expiry period is never removed.
C33_ExpiredOnly ==
    [][\A px \in {"oss", "dev"}, t \in Targets :
          /\ Swept(px, t) =>
                /\ Present(store[px][t].meta)
                /\ now - store[px][t].meta.mtime > CacheExpireDays(px)
                /\ store' = RemoveDir(store, px, t)
          /\ (sweep.pc = "scan" /\ sweep' # sweep /\ sweep.i <= Len(sweep.files)
                 /\ sweep.px = px /\ sweep.files[sweep.i].t = t
                 /\ Present(store[px][t].meta)
                 /\ now - store[px][t].meta.mtime > CacheExpireDays(px))
                => ~Present(store'[px][t].meta)
          /\ (sweep' # sweep) => store'["local"] = store["local"]]_vars

\* C33 as the code has it: clear_expired removes the directory of an entry
\* exactly when the modified_time that its listing returned for the entry's
\* metadata object is more than CACHE_EXPIRE_DAYS of the backend old when
\* the entry is visited; it removes the archive and the metadata of that
\* entry and nothing else, and never touches the Local tier.
C33_ListedExpiredOnly ==
    [][(sweep' # sweep) =>
          /\ store'["local"] = store["local"]
          /\ \A px \in {"oss", "dev"}, t \in Targets :
                LET visited == /\ sweep.pc = "scan"
                               /\ sweep.i <= Len(sweep.files)
                               /\ sweep.px = px
                               /\ sweep.files[sweep.i].t = t
                    old == now - sweep.files[sweep.i].modified_time
                              > CacheExpireDays(px)
                IN  /\ Swept(px, t) => (visited /\ old)
                    /\ (visited /\ old) =>
                          /\ ~Present(store'[px][t].arch)
                          /\ ~Present(store'[px][t].meta)
                          /\ \A qx \in {"oss", "dev"}, u \in Targets :
                                (qx # px \/ u # t) => store'[qx][u] = store[qx][u]
                    /\ (visited /\ ~old) => store' = store]_vars

\* A sweep has just removed an entry that it had listed as expired, and
\* has left another entry of the same listing that was not.
C33_Witness ==
    /\ sweep.pc = "scan"
    /\ sweep.i > 2
    /\ ~Expired(sweep.files[sweep.i - 2], sweep.px, now)
    /\ Present(store[sweep.px][sweep.files[sweep.i - 2].t].meta)
    /\ Expired(sweep.files[sweep.i - 1], sweep.px, now)
    /\ ~Present(store[sweep.px][sweep.files[sweep.i - 1].t].meta)

----------------------------------------------------------------------------
(* SpecClear: clear_expired of the Local backend on the cache directory of *)
(* one application.  The clock of this specification counts fractions of   *)
(* a day, TicksPerDay to the day, so that ages between whole days exist.   *)

CACHE_CLEAR_DURATION_DAYS == 7
Local_CACHE_EXPIRE_DAYS == 15
\* Directories under the base directory: the last one is no target
\* directory (its name has no colon), the others are named after targets.
NumDirs == 3
TicksPerDay == 2
\* Single ticks the clock makes at most; its other steps are whole periods.
MaxSmall == 2
\* The last tick of the clock.
MaxTick == TicksPerDay * MaxDay

DirIds == 1..NumDirs
\* The last_cleared file holds one time, or is not there.
NoStamp == <<>>
NoDir == [present |-> FALSE, atime |-> 0]

\* ":" in d
HasColon(d) == d < NumDirs

\* timedelta.days of a difference of t ticks: whole days, rounded down.
DaysOf(t) == t \div TicksPerDay

NeedClearWhenOld(c) ==
    /\ c.base
    /\ c.stamp # NoStamp
    /\ DaysOf(c.clock - c.stamp[1]) > CACHE_CLEAR_DURATION_DAYS
\* need_clear of clear_expired, lines 87-97.
NeedClear(c) ==
    /\ c.base
    /\ \/ c.stamp = NoStamp
       \/ DaysOf(c.clock - c.stamp[1]) > CACHE_CLEAR_DURATION_DAYS

\* The test of lines 101-106 on one directory of the walk.
Stale(c, d) ==
    /\ c.dirs[d].present
    /\ HasColon(d)
    /\ DaysOf(c.clock - c.dirs[d].atime) > Local_CACHE_EXPIRE_DAYS

\* The walk of lines 99-108: stale target directories are removed; the walk
\* reads the directories it descends into, which refreshes their access
\* time or not, depending on how the file system is mounted.
Walk(c, refresh) ==
    [d \in DirIds |->
        IF Stale(c, d) THEN NoDir
        ELSE IF c.dirs[d].present /\ refresh
             THEN [present |-> TRUE, atime |-> c.clock]
             ELSE c.dirs[d]]

ClearFrame ==
    UNCHANGED <<deps, backend, mode, commitIdx, store, store0, now, serial, stack,
                status, log, op, runs, tree, environ, cmdout, rec, sum, keys, isCI,
                loaderVars, matchVars, poolVars, sweep, dest>>

\* TargetCacheBackendTypeLocal.clear_expired, the whole call.  `before` keeps
\* the directory as the call found it.
ClearExpired ==
    /\ ClearFrame
    /\ \E refresh \in BOOLEAN :
          LET c == cachedir
              found == [base |-> c.base, stamp |-> c.stamp]
          IN  cachedir' =
                 IF NeedClear(c)
                 THEN [c EXCEPT !.dirs = Walk(c, refresh), !.stamp = <<c.clock>>,
                                !.last = "clear", !.swept = TRUE, !.before = found]
                 ELSE [c EXCEPT !.last = "clear", !.swept = FALSE, !.before = found]

\* TargetCacheBackendTypeLocal.save as far as the directories go: makedirs
\* creates the base directory and the directory of the target.
SaveDir(d) ==
    /\ ClearFrame
    /\ HasColon(d)
    /\ cachedir' = [cachedir EXCEPT
          !.base = TRUE,
          !.dirs[d] = IF @.present THEN @ ELSE [present |-> TRUE, atime |-> cachedir.clock],
          !.last = "save"]

\* Time passes: a tick, or a whole clearing or expiry period.
TickClear ==
    /\ ClearFrame
    /\ \/ /\ cachedir.small < MaxSmall
          /\ cachedir.clock + 1 <= MaxTick
          /\ cachedir' = [cachedir EXCEPT !.clock = @ + 1, !.small = @ + 1,
                                          !.last = "tick"]
       \/ \E days \in {CACHE_CLEAR_DURATION_DAYS, Local_CACHE_EXPIRE_DAYS} :
             /\ cachedir.clock + TicksPerDay * days <= MaxTick
             /\ cachedir' = [cachedir EXCEPT !.clock = @ + TicksPerDay * days,
                                             !.last = "tick"]

\* The cache directory of the application on day 0: missing, or there with
\* any of the directories, with or without the stamp of a sweep.
InitClear ==
    /\ deps = [t \in Targets |-> <<SourceDep>>]
    /\ backend = "local"
    /\ mode = "NORMAL"
    /\ commitIdx = FALSE
    /\ store = [tier \in Tiers |-> [t \in Targets |-> NoEntry]]
    /\ store0 = store
    /\ now = 0
    /\ serial = 0
    /\ PlainInputs
    /\ rec = NoRecord
    /\ isCI = FALSE
    /\ sum = [r \in Runs |-> NoSums]
    /\ keys = {}
    /\ stack = <<>>
    /\ status = "idle"
    /\ log = <<>>
    /\ EngineIdle
    /\ LoaderIdle
    /\ MatchIdle
    /\ PoolIdle
    /\ sweep = <<>>
    /\ dest = <<>>
    /\ \E base \in BOOLEAN : \E P \in SUBSET DirIds : \E stamp \in {NoStamp, <<0>>} :
          /\ ~base => (P = {} /\ stamp = NoStamp)
          /\ cachedir = [base |-> base, stamp |-> stamp, clock |-> 0, small |-> 0,
                         dirs |-> [d \in DirIds |->
                                     IF d \in P THEN [present |-> TRUE, atime |-> 0]
                                     ELSE NoDir],
                         last |-> "none", swept |-> FALSE,
                         before |-> [base |-> base, stamp |-> stamp]]

NextClear ==
    \/ ClearExpired
    \/ \E d \in DirIds : SaveDir(d)
    \/ TickClear

SpecClear == InitClear /\ [][NextClear]_vars

\* C34: a clear_expired that finds no last_cleared stamp sweeps at once and
\* writes the stamp, whatever the state of the cache directory, the base
\* directory missing included: after the call the stamp exists.
C34_NoStampSweeps ==
    (cachedir.last = "clear" /\ cachedir.before.stamp = NoStamp) =>
        (cachedir.swept /\ cachedir.stamp # NoStamp)

\* C34 as the code has it: with the base directory there and no stamp the
\* call sweeps and leaves a stamp of the present time; with the base
\* directory missing it does nothing, creates nothing and writes no stamp.
C34_NoStampSweepsInBase ==
    (cachedir.last = "clear" /\ cachedir.before.stamp = NoStamp) =>
        IF cachedir.before.base
        THEN /\ cachedir.swept
             /\ cachedir.stamp = <<cachedir.clock>>
             /\ \A d \in DirIds : ~Stale(cachedir, d)
        ELSE /\ ~cachedir.swept
             /\ cachedir.stamp = NoStamp
             /\ ~cachedir.base
             /\ \A d \in DirIds : ~cachedir.dirs[d].present

\* A call that found the base directory without a stamp, some days after
\* the directories were made, has swept and written the stamp.
C34_Witness ==
    /\ cachedir.last = "clear"
    /\ cachedir.before.base
    /\ cachedir.before.stamp = NoStamp
    /\ cachedir.swept
    /\ cachedir.stamp = <<cachedir.clock>>
    /\ cachedir.clock > 0

\* C35: a sweep happens only when the stamp is missing or more than
\* CACHE_CLEAR_DURATION_DAYS old, and a sweep removes a target directory
\* exactly when its access time is more than CACHE_EXPIRE_DAYS old, by
\* however little: one accessed 15 days and some hours ago goes, one
\* accessed within the last 15 days stays.
C35_SweepByAge ==
    [][(cachedir'.last = "clear" /\ cachedir' # cachedir /\ cachedir'.swept) =>
          /\ \/ cachedir.stamp = NoStamp
             \/ cachedir.clock - cachedir.stamp[1]
                   > TicksPerDay * CACHE_CLEAR_DURATION_DAYS
          /\ \A d \in DirIds :
                (cachedir.dirs[d].present /\ HasColon(d)) =>
                    (~cachedir'.dirs[d].present
                        <=> cachedir.clock - cachedir.dirs[d].atime
                               > TicksPerDay * Local_CACHE_EXPIRE_DAYS)]_vars

----------------------------------------------------------------------------
(* SpecExtract: Archiver.archive and Archiver.extract on the files of a    *)
(* destination directory.  Every operation happens at its own time.        *)

\* Paths that the archive and the destination directory can hold.
NumPaths == 2
\* The time of the last operation.
MaxStamp == 5

PathIds == 1..NumPaths
Bytes == {"original", "modified"}
NoPath == [present |-> FALSE, content |-> "", mtime |-> 0]
NoPaths == [f \in PathIds |-> NoPath]

\* tar.add for the paths P as they are on disk: content and mtime of each.
TarAdd(files, P) == [f \in PathIds |-> IF f \in P THEN files[f] ELSE NoPath]

ShouldCopyAlways(src, dst) == TRUE
\* should_copy of _sync_with_checksum, lines 76-81: the destination file is
\* not there, or the SHA-256 of its content differs from the extracted one.
ShouldCopy(src, dst) == ~dst.present \/ src.content # dst.content

Copy2Only(src, t) == [present |-> TRUE, content |-> src.content, mtime |-> src.mtime]
\* shutil.copy2 followed by os.utime(dest_file, None), lines 84-86: the
\* content of the extracted file, the modification time of the present.
CopyAndTouch(src, t) == [present |-> TRUE, content |-> src.content, mtime |-> t]

\* _sync_with_checksum over the files extracted from the archive tar.
SyncWithChecksum(tar, files, t) ==
    [f \in PathIds |->
        IF tar[f].present /\ ShouldCopy(tar[f], files[f])
        THEN CopyAndTouch(tar[f], t)
        ELSE files[f]]

ExtractFrame ==
    UNCHANGED <<deps, backend, mode, commitIdx, store, store0, now, serial, stack,
                status, log, op, runs, tree, environ, cmdout, rec, sum, keys, isCI,
                loaderVars, matchVars, poolVars, sweep, cachedir>>

\* Archiver.archive(paths, archive_path) for paths that exist.
Archive ==
    /\ ExtractFrame
    /\ dest.clock <= MaxStamp
    /\ \E P \in SUBSET PathIds :
          /\ P # {}
          /\ \A f \in P : dest.files[f].present
          /\ dest' = [dest EXCEPT !.tar = TarAdd(dest.files, P), !.packed = TRUE,
                                  !.clock = @ + 1, !.last = "archive", !.before = NoPaths]

\* Archiver.extract(archive_path, dest_path), the whole call.  `before` keeps
\* the destination directory as the call found it.
Extract ==
    /\ ExtractFrame
    /\ dest.clock <= MaxStamp
    /\ dest.packed
    /\ dest' = [dest EXCEPT
          !.files = SyncWithChecksum(dest.tar, dest.files, dest.clock),
          !.clock = @ + 1,
          !.last = "extract",
          !.before = dest.files]

\* A build step or an editor writes a file of the destination directory.
WriteText(f) ==
    /\ ExtractFrame
    /\ dest.clock <= MaxStamp
    /\ \E c \in Bytes :
          dest' = [dest EXCEPT
             !.files[f] = [present |-> TRUE, content |-> c, mtime |-> dest.clock],
             !.clock = @ + 1,
             !.last = "write",
             !.before = NoPaths]

\* ... or removes one.
Unlink(f) ==
    /\ ExtractFrame
    /\ dest.clock <= MaxStamp
    /\ dest.files[f].present
    /\ dest' = [dest EXCEPT !.files[f] = NoPath, !.clock = @ + 1, !.last = "unlink",
                            !.before = NoPaths]

InitExtract ==
    /\ deps = [t \in Targets |-> <<SourceDep>>]
    /\ backend = "local"
    /\ mode = "NORMAL"
    /\ commitIdx = FALSE
    /\ store = [tier \in Tiers |-> [t \in Targets |-> NoEntry]]
    /\ store0 = store
    /\ now = 0
    /\ serial = 0
    /\ PlainInputs
    /\ rec = NoRecord
    /\ isCI = FALSE
    /\ sum = [r \in Runs |-> NoSums]
    /\ keys = {}
    /\ stack = <<>>
    /\ status = "idle"
    /\ log = <<>>
    /\ EngineIdle
    /\ LoaderIdle
    /\ MatchIdle
    /\ PoolIdle
    /\ sweep = <<>>
    /\ cachedir = <<>>
    /\ \E P \in SUBSET PathIds : \E c \in [PathIds -> Bytes] :
          dest = [files |-> [f \in PathIds |->
                               IF f \in P
                               THEN [present |-> TRUE, content |-> c[f], mtime |-> 0]
                               ELSE NoPath],
                  tar |-> NoPaths,
                  before |-> NoPaths,
                  packed |-> FALSE,
                  clock |-> 1,
                  last |-> "none"]

NextExtract ==
    \/ Archive
    \/ Extract
    \/ \E f \in PathIds : WriteText(f)
    \/ \E f \in PathIds : Unlink(f)

SpecExtract == InitExtract /\ [][NextExtract]_vars

\* The file f was in the archive of the extract that has just run, and the
\* destination held a file of the same content.
SameContent(f) ==
    /\ dest.tar[f].present
    /\ dest.before[f].present
    /\ dest.before[f].content = dest.tar[f].content

\* The file f was in the archive of the extract that has just run, and the
\* destination held no such file or one of another content.
OtherContent(f) ==
    /\ dest.tar[f].present
    /\ ~dest.before[f].present \/ dest.before[f].content # dest.tar[f].content

\* C36: extract leaves a destination file whose content equals the archived
\* one as it is, modification time included, and leaves every destination
\* file that is not in the archive as it is.
C36_SameContentUntouched ==
    dest.last = "extract" =>
        \A f \in PathIds :
            (SameContent(f) \/ ~dest.tar[f].present) => dest.files[f] = dest.before[f]

\* An extract has left a file alone that was rewritten with the archived
\* content after the archive was made, and another that is not in the archive.
C36_Witness ==
    /\ dest.last = "extract"
    /\ \E f \in PathIds :
          /\ SameContent(f)
          /\ dest.before[f].mtime > dest.tar[f].mtime
          /\ dest.files[f].mtime = dest.before[f].mtime
    /\ \E g \in PathIds : ~dest.tar[g].present /\ dest.files[g].present

\* C37: after extract a file of the archive whose destination was missing
\* or had another content has the archived content, and its modification
\* time is the time of the extraction: later than the one it had before and
\* than the one stored in the archive.
C37_OtherContentReplaced ==
    dest.last = "extract" =>
        \A f \in PathIds :
            OtherContent(f) =>
                /\ dest.files[f].present
                /\ dest.files[f].content = dest.tar[f].content
                /\ dest.files[f].mtime = dest.clock - 1
                /\ dest.files[f].mtime > dest.tar[f].mtime
                /\ dest.before[f].present => dest.files[f].mtime > dest.before[f].mtime

\* An extract has replaced a file that was changed after the archive was
\* made, and has brought back one that was removed.
C37_Witness ==
    /\ dest.last = "extract"
    /\ \E f \in PathIds :
          /\ OtherContent(f)
          /\ dest.before[f].present
          /\ dest.before[f].mtime > dest.tar[f].mtime
          /\ dest.files[f].content = dest.tar[f].content
    /\ \E g \in PathIds :
          /\ OtherContent(g)
          /\ ~dest.before[g].present
          /\ dest.files[g].present

----------------------------------------------------------------------------
(* Properties of one invocation as a whole, checked under Spec *)

\* C38: within one invocation every target's build command runs at most
\* once, whichever the backend: a target reached again through another
\* dependency path is loaded, not rebuilt.
C38_BuiltAtMostOnce ==
    \A j \in 1..Len(log) : \A k \in 1..Len(log) :
        (log[j].e \in Builds /\ log[k].e \in Builds /\ log[j].t = log[k].t) => j = k

\* C38 as the code has it: with every backend that caches (all but Raw)
\* every target's build command runs at most once within one invocation.
C38_BuiltAtMostOnceCached ==
    backend # "raw" => C38_BuiltAtMostOnce

\* A target that this invocation built was reached again through another
\* dependency path and loaded from the entry the first visit saved.
C38_Witness ==
    /\ backend # "raw"
    /\ status = "done"
    /\ \E j \in 1..Len(log) : \E k \in (j + 1)..Len(log) :
          /\ log[j].e = "build"
          /\ log[k].e = "load"
          /\ log[k].t = log[j].t

----------------------------------------------------------------------------
(* SpecRecord: cli.execute_target in a merge-group run of the CI with a    *)
(* database: after Target.execute has returned, the checksum of the target *)
(* is recorded for the commit and the job.                                 *)

\* db.record_checksum(TargetChecksum(..., checksum=target.checksum_value)),
\* lines 100-112: the row that a later query_checksum returns.
RecordChecksum ==
    /\ UNCHANGED <<deps, backend, mode, commitIdx, store, store0, now, serial,
                   stack, log, op, runs, tree, environ, cmdout, sum, keys, isCI,
                   loaderVars, matchVars, poolVars, diskVars>>
    /\ status = "done"
    /\ isCI
    /\ rec' = Record(ChecksumValue(sum[1], NumTargets, Inputs(1))[NumTargets].v)
    /\ status' = "recorded"

InitRecord ==
    /\ deps \in DepGraphs
    /\ backend \in Backends
    /\ mode \in Modes
    /\ commitIdx \in (IF backend \in CloudBackends THEN BOOLEAN ELSE {FALSE})
    /\ \E H \in SUBSET Targets : \E pl \in Placements(backend) :
          store = StoreOf(H, pl)
    /\ store0 = store
    /\ now = 0
    /\ serial = 0
    /\ PlainInputs
    /\ isCI = TRUE
    /\ rec \in (IF mode = "LOAD_ONLY"
                THEN {NoRecord} \cup {Record(cs) : cs \in Recordable}
                ELSE {NoRecord})
    /\ sum = [r \in Runs |-> NoSums]
    /\ keys = {}
    /\ stack = <<>>
    /\ status = "start"
    /\ log = <<>>
    /\ EngineIdle
    /\ LoaderIdle
    /\ MatchIdle
    /\ PoolIdle
    /\ DiskIdle

NextRecord ==
    \/ Next
    \/ RecordChecksum

SpecRecord == InitRecord /\ [][NextRecord]_vars

\* C39: the checksum that execute_target records refers to a cache entry
\* that is in the selected backend when it is recorded, whatever the mode
\* and the backend of the recording run: a LOAD_ONLY run that follows is a
\* cache hit.
C39_RecordedEntryExists ==
    status = "recorded" =>
        Exists(backend, Shared(store, now, serial), Requested)

----------------------------------------------------------------------------
(* The Local tier under sequences of cache calls, checked under SpecSeq *)

\* A Cloud or Dev load has succeeded after downloading the entry.
Downloaded(p) == CloudLoad(p) /\ op[p].res = "ok" /\ op[p].ndown > 0

\* C40: whenever Local.exists(t) is true the local archive of t is there
\* and completely written, also after a load or a save that failed part-way;
\* and after a successful Cloud load that downloaded the entry
\* Local.exists(t) is true.
C40_LocalTierSound ==
    /\ \A t \in Targets :
          LocalExists(Cur, t) => store["local"][t].arch.st = "full"
    /\ \A p \in Procs : Downloaded(p) => LocalExists(Cur, op[p].t)
====
